---- MODULE Spec2Model ----
(***************************************************************************)
(* LinkID resolver: the in-memory registry (record lifecycle, versioning,  *)
(* ownership, tombstones), the resolver's decision between a redirect and  *)
(* a metadata result, and the HTTP boundary of the resolution endpoint.    *)
(*                                                                         *)
(* Python values are modelled as follows.  None is the string NULL.  A     *)
(* dict is a TLA+ function whose DOMAIN is the set of keys present, so     *)
(* `k in d` is k \in DOMAIN d and d.get(k) is DictGet(d, k).  time.time()  *)
(* is the variable now, a count of clock ticks (TicksPerSecond ticks make  *)
(* one second) that advances on its own between operations.                *)
(***************************************************************************)
EXTENDS Integers, Sequences, FiniteSets, TLC

\* ------------------------------------------------------------------ bounds

\* The clock runs from 0 to MaxTime ticks.
MaxTime == 1

\* Resolution of the modelled clock: int(t) of a time t in ticks is
\* t \div TicksPerSecond.
TicksPerSecond == 2

\* Updates stop being issued once a record's version has reached MaxVersion.
MaxVersion == 3

\* ------------------------------------------------------------------ values

NULL == "None"

\* Python truthiness of the scalar values used here (None and "" are falsy).
Truthy(v) == v /= NULL /\ v /= ""

\* Python's `a or b`.
PyOr(a, b) == IF Truthy(a) THEN a ELSE b

\* dict.get(k): the value, or None when the key is absent.
DictGet(d, k) == IF k \in DOMAIN d THEN d[k] ELSE NULL

\* An assignment of the other dict in place of the merge.
DictUpdate_Replace(d, other) == other

\* dict.update(other): keys of other overwrite, all other keys are kept.
DictUpdate(d, other) ==
  [k \in DOMAIN d \cup DOMAIN other |-> IF k \in DOMAIN other THEN other[k] ELSE d[k]]

\* dict.setdefault(k, v): sets the key only when it is absent.
DictSetDefault(d, k, v) ==
  IF k \in DOMAIN d THEN d ELSE [x \in DOMAIN d \cup {k} |-> IF x = k THEN v ELSE d[x]]

EmptyDict == [k \in {} |-> NULL]

\* The identifiers of the modelled run (abstract names for the 32-character
\* upper-case hexadecimal strings uuid4().hex.upper() returns).  Every
\* operation of the registry reads and writes the one record it is called
\* for, so one identifier, unknown until create issues it, shows them all.
LinkIds == {"ID1"}

\* Caller identities (user_sub / issuer arguments).
Identities == {"demo-user", "bob"}

TargetA == "https://example.org/resource"
TargetB == "https://example.org/new"

\* ------------------------------------------------------------------ inputs

\* The "metadata" entry of a payload or of an update: the key is absent,
\* holds a value that is not a dict (None included), or holds a dict.
MdAbsent == [kind |-> "absent", d |-> EmptyDict]
MdNotDict == [kind |-> "notdict", d |-> EmptyDict]
MdDict(d) == [kind |-> "dict", d |-> d]

\* Metadata dicts a caller may send.
MetaDicts ==
  { EmptyDict,
    ("k" :> "v1"),
    ("issuer" :> ""),
    ("issuer" :> "bob") }

\* A dict argument: f holds its scalar entries, md its "metadata" entry.
Dict(f, md) == [f |-> f, md |-> md]

\* Payloads of create.
CreatePayloads ==
  { Dict(("targetUri" :> TargetA), m) : m \in {MdAbsent} \cup {MdDict(d) : d \in MetaDicts} }
  \cup { Dict(("target_uri" :> TargetB) @@ ("mediaType" :> "text/html") @@ ("language" :> "en"),
              MdAbsent),
         Dict(EmptyDict, MdAbsent) }

\* Dicts of update: no key, an unrecognized key, each recognized key alone,
\* both spellings of a key together, and several fields at once.
UpdateInputs ==
  { Dict(EmptyDict, MdAbsent), Dict(("owner" :> "bob"), MdAbsent), Dict(EmptyDict, MdNotDict) }
  \cup { Dict((k :> v), MdAbsent) : k \in {"target_uri", "targetUri"}, v \in {TargetA, TargetB, NULL} }
  \cup { Dict((k :> v), MdAbsent) : k \in {"media_type", "mediaType"}, v \in {"text/html", NULL} }
  \cup { Dict(("language" :> v), MdAbsent) : v \in {"en", NULL} }
  \cup { Dict(("target_uri" :> v) @@ ("targetUri" :> w), MdAbsent) :
           v \in {NULL, TargetA}, w \in {TargetB} }
  \cup { Dict(EmptyDict, MdDict(d)) : d \in MetaDicts }
  \cup { Dict(("targetUri" :> TargetB) @@ ("language" :> "en"), MdDict(("k" :> "v1"))) }

\* Requests of withdraw: None, or a dict with or without a reason.
WithdrawInputs ==
  { EmptyDict, ("reason" :> "owner request"), ("reason" :> "duplicate") }

\* ------------------------------------------------------------------ inputs of the HTTP mutations

\* The bearer token of a request: None when the Authorization header is
\* missing, and the tokens AuthService.authenticate tells apart.
Tokens == {NULL, "unauthorized", "readonly", "demo"}

\* A target that is no absolute URI.
RelativeTarget == "docs/page"

\* RegistrationRequest bodies that passed the framework's type validation:
\* target_uri is a string, the other fields are optional.
RegistrationBody(target_uri, media_type, language, metadata) ==
  [target_uri |-> target_uri, media_type |-> media_type, language |-> language,
   metadata |-> metadata]

RegistrationBodies ==
  { RegistrationBody(TargetA, NULL, NULL, MdNotDict),
    RegistrationBody(TargetB, "text/html", "en", MdDict(("k" :> "v1"))),
    RegistrationBody(TargetA, NULL, NULL, MdDict(("issuer" :> "bob"))),
    RegistrationBody(TargetA, NULL, NULL, MdDict(("issuer" :> ""))),
    RegistrationBody(RelativeTarget, NULL, NULL, MdNotDict) }

\* The bodies of PUT /resolve/{linkid}.
HttpUpdateBodies ==
  { Dict(EmptyDict, MdAbsent),
    Dict(("owner" :> "bob"), MdAbsent),
    Dict(("targetUri" :> TargetB), MdAbsent),
    Dict(("target_uri" :> TargetA), MdAbsent),
    Dict(("language" :> "en"), MdAbsent),
    Dict(EmptyDict, MdDict(("issuer" :> "bob"))),
    Dict(EmptyDict, MdDict(("issuer" :> ""))) }

\* ------------------------------------------------------------------ inputs of the event loop

\* Two update requests in flight at once.
Tasks == {1, 2}

\* The bodies of the concurrent updates.
TaskUpdates ==
  { Dict(("targetUri" :> TargetA), MdAbsent),
    Dict(("targetUri" :> TargetB), MdAbsent),
    Dict(("language" :> "en"), MdAbsent),
    Dict(EmptyDict, MdAbsent) }

\* A coroutine of RegistryService.update: where it stands, its arguments,
\* the version the record had when the request was issued, the version its
\* `record.version += 1` loaded, and how it ended.
Task(pc, link_id, updates, user_sub, base, loaded, err) ==
  [pc |-> pc, link_id |-> link_id, updates |-> updates, user_sub |-> user_sub,
   base |-> base, loaded |-> loaded, err |-> err]

IdleTask == Task("idle", NULL, Dict(EmptyDict, MdAbsent), NULL, 0, 0, NULL)

\* ------------------------------------------------------------------ inputs of the SDK client

\* Client-side strings are kept as the sequence of their pieces (single
\* characters for identifiers): equal sequences are equal strings.
Rep(c, n) == [i \in 1..n |-> c]

MinIdLen == 32
MaxIdLen == 64

\* Members of the character class [A-Za-z0-9._~-].
IdAlphabet == {"A", "z", "0", "9", ".", "_", "~", "-"}

GoodId == Rep("A", MinIdLen)
ShortId == Rep("A", MinIdLen - 1)
LongId == Rep("A", MaxIdLen + 1)
SpaceId == Rep("A", MinIdLen - 1) \o <<" ">>
NewlineId == Rep("A", MinIdLen - 1) \o <<"\n">>
EmptyId == << >>

\* An optional string argument: None, or the string.
NoOpt == [given |-> FALSE, s |-> << >>]
Opt(s) == [given |-> TRUE, s |-> s]

\* The keyword arguments of resolve at their defaults.
DefaultOptions ==
  [format |-> NoOpt, language |-> NoOpt, version |-> NoOpt, timestamp |-> NoOpt,
   metadata |-> FALSE]

\* Two option sets whose string arguments hold the separator of the cache key.
OptionsA ==
  [DefaultOptions EXCEPT
     !.language = Opt(<<"x", "|", "metadata=", "False", "|", "timestamp=", "y">>),
     !.timestamp = Opt(<<"z">>),
     !.metadata = TRUE]
OptionsB ==
  [DefaultOptions EXCEPT
     !.language = Opt(<<"x">>),
     !.timestamp = Opt(<<"y", "|", "metadata=", "True", "|", "timestamp=", "z">>),
     !.metadata = FALSE]

ResolveOptions == {DefaultOptions, OptionsA, OptionsB}

\* The (link_id, options) pairs resolve is called with.
ResolveInput(link_id, options) == [link_id |-> link_id, options |-> options]
ResolveInputs ==
  { ResolveInput(GoodId, o) : o \in ResolveOptions }
    \cup { ResolveInput(i, DefaultOptions) : i \in {ShortId, SpaceId, EmptyId} }

\* The link ids update and withdraw are called with.
MutationLinkIds == {GoodId, LongId, NewlineId}

\* Request bodies of register: targetUri as its pieces.
RegisterRequests ==
  { ("targetUri" :> <<"https://", "example.org/resource">>),
    ("targetUri" :> <<"docs/page">>),
    ("targetUri" :> << >>),
    EmptyDict }

\* Request bodies of update and withdraw.
MutationRequests == { ("targetUri" :> <<"https://", "example.org/new">>) }

DefaultRetries == 3
DefaultCacheTtl == 3600
MaxSize == 1024

\* LinkIDClient.__init__: its keyword arguments.
ClientConfig(api_key, retries, caching, cache_ttl) ==
  [api_key |-> api_key, retries |-> retries, caching |-> caching, cache_ttl |-> cache_ttl]

DefaultConfig == ClientConfig(NULL, DefaultRetries, TRUE, DefaultCacheTtl)

ClientConfigs ==
  { DefaultConfig,
    ClientConfig("key", DefaultRetries, TRUE, DefaultCacheTtl),
    ClientConfig("key", 0, FALSE, DefaultCacheTtl) }

\* A response header that may be missing.
NoHeader == [given |-> FALSE, s |-> << >>]
Header(s) == [given |-> TRUE, s |-> s]

\* requests.Response: what the client reads of it.  json tells what
\* response.json() does: it returns a dict ("object", held in body), returns
\* a value that is not a dict ("array"), or raises ("invalid", the body
\* being the text).
Response(status, location, cache_control, body) ==
  [status |-> status, location |-> location, cache_control |-> cache_control,
   body |-> body, json |-> "object", text |-> NULL]

\* A response whose body is not a JSON object.
BodyResponse(status, location, json, text) ==
  [Response(status, location, NoHeader, EmptyDict) EXCEPT !.json = json, !.text = text]

NoResponse == Response(0, NULL, NoHeader, EmptyDict)

\* The responses the transport may deliver.
TransportResponses ==
  { Response(302, TargetA, Header(<<"public", ",", "max-age=", "0">>), EmptyDict),
    Response(302, NULL, NoHeader, EmptyDict),
    Response(200, NULL, Header(<<"no-cache">>), ("id" :> "ID1")),
    Response(201, NULL, NoHeader, ("id" :> "ID1")),
    Response(400, NULL, NoHeader, ("message" :> "bad request")),
    Response(403, NULL, NoHeader, ("error" :> "forbidden") @@ ("code" :> "NO_SCOPE")),
    Response(404, NULL, NoHeader, ("error" :> "LinkID not found")),
    Response(410, NULL, NoHeader, ("error" :> "LinkID withdrawn")),
    Response(429, NULL, NoHeader, EmptyDict),
    Response(500, NULL, NoHeader, EmptyDict),
    Response(300, TargetA, NoHeader, EmptyDict),
    BodyResponse(200, NULL, "invalid", "<html>"),
    BodyResponse(404, NULL, "invalid", "<html>"),
    BodyResponse(500, NULL, "array", "[]") }

\* The exceptions of requests that _send_request catches.
TransportFailures == {"Timeout", "ConnectionError"}

\* A value resolve returns: RedirectResolution or MetadataResolution, and
\* the parsed body register returns.
NoResult ==
  [type |-> "none", link_id |-> << >>, uri |-> NULL, data |-> EmptyDict, cached |-> FALSE]
RedirectResolution(link_id, uri) ==
  [type |-> "redirect", link_id |-> link_id, uri |-> uri, data |-> EmptyDict,
   cached |-> FALSE]
MetadataResolution(link_id, data) ==
  [type |-> "metadata", link_id |-> link_id, uri |-> NULL, data |-> data,
   cached |-> FALSE]
JsonResult(data) ==
  [type |-> "json", link_id |-> << >>, uri |-> NULL, data |-> data, cached |-> FALSE]

\* TTLCache._store right after construction.
EmptyCache == << >>

\* ------------------------------------------------------------------ inputs of the caches

\* The max_size a TTLCache is constructed with (the client's is MaxSize).
CacheSizes == {1, 2}

\* Keys, values and TTLs (in seconds) of the calls made on a cache.
CacheKeys == {"K1", "K2"}
CacheValues == {"v1", "v2"}
CacheTtls == {0, 1}

\* The value and the TTL of the calls that threads make concurrently.
ThreadValues == {"v1"}
ThreadTtls == {0, 1}

\* The keys the server's cache is called with.
ServerCacheKeys == {"K1"}

\* The threads that share one TTLCache.
Threads == {1, 2}

\* A thread inside a method of TTLCache: the statement it stands before,
\* the method's arguments, and its locals (the entry get read, the key
\* next(iter(...)) returned).
Thread(pc, key, value, ttl, entry, first) ==
  [pc |-> pc, key |-> key, value |-> value, ttl |-> ttl, entry |-> entry, first |-> first]

NoEntry == [key |-> NULL, value |-> NULL, expires_at |-> 0]

\* A thread outside the cache.
IdleThread == Thread("idle", NULL, NULL, 0, NoEntry, NULL)

\* A public call of the client: the method and its arguments, the cache key
\* resolve computed, where the call stands ("sending" inside _send_request,
\* "done" once it returned or raised), the attempt of the retry loop, the
\* number of session.request calls made, the last transport failure, the
\* response received, and how the call ended: the exception class and its
\* code and message ("ok" and None when it returned), the link_id and the
\* tombstone attributes of a LinkIDNotFoundError or LinkIDWithdrawnError, and
\* the value returned.  created and applied record what the server did with
\* the call's requests: the number of records it created for them, and the
\* version the record had when it had applied the call's mutation.
NewCall(op, link_id, options, bypass_cache, request) ==
  [op |-> op, link_id |-> link_id, options |-> options, bypass_cache |-> bypass_cache,
   request |-> request, key |-> << >>, pc |-> "done", attempt |-> 0, sent |-> 0,
   last_error |-> NULL, response |-> NoResponse,
   err |-> "ok", code |-> NULL, message |-> NULL, err_link_id |-> NULL,
   tombstone |-> NULL, out |-> NoResult, created |-> 0, applied |-> 0]

NoCall == NewCall("none", EmptyId, DefaultOptions, FALSE, EmptyDict)

\* The threads that share one client.
Callers == {"reader", "writer"}

\* ------------------------------------------------------------------ state

VARIABLES
  store,    \* RegistryService._store: link id -> RegistryRecord
  now,      \* the value time.time() returns, in ticks
  result,   \* what the most recent call returned or raised
  tasks,    \* the update coroutines on the server's event loop
  config,   \* LinkIDClient: the constructor's arguments
  cache,    \* LinkIDClient.cache._store: cache key -> (value, expires_at)
  call,     \* LinkIDClient: the public call in progress or last finished
  max_size,     \* TTLCache.max_size
  server_cache, \* CacheService._store: key -> (value, expires_at)
  threads,      \* the threads inside a method of the one TTLCache they share
  callers       \* the public calls of the threads that share one LinkIDClient

\* The state of the SDK client.
clientVars == <<config, cache, call>>

\* The state of the caches beyond TTLCache._store, and of the threads that
\* share a client.
cacheVars == <<max_size, server_cache, threads, callers>>

vars ==
  <<store, now, result, tasks, config, cache, call, max_size, server_cache, threads, callers>>

\* Tombstone(reason, at): `at or time.time()` with at=None is the clock.
Tombstone(reason, t) == [present |-> TRUE, reason |-> reason, at |-> t]

\* RegistryRecord.withdrawn = None.
NoTombstone == [present |-> FALSE, reason |-> NULL, at |-> 0]

\* A record that starts at version 0.
RegistryRecord_VersionZero(link_id, target_uri, media_type, language, metadata, t) ==
  [ id |-> link_id,
    target_uri |-> target_uri,
    media_type |-> media_type,
    language |-> language,
    metadata |-> metadata,
    created |-> t,
    updated |-> t,
    version |-> 0,
    withdrawn |-> NoTombstone ]

\* RegistryRecord.__init__.
RegistryRecord(link_id, target_uri, media_type, language, metadata, t) ==
  [ id |-> link_id,
    target_uri |-> target_uri,
    media_type |-> media_type,
    language |-> language,
    metadata |-> metadata,
    created |-> t,
    updated |-> t,
    version |-> 1,
    withdrawn |-> NoTombstone ]

\* What a call left behind: the operation, its id, the flag it was called
\* with (prefer_redirect of the resolver, metadata of the endpoint; None for
\* the other calls), the exception code it raised ("ok" when it returned)
\* and the value it returned.
Outcome(op, id, arg, err, out) ==
  [op |-> op, id |-> id, arg |-> arg, err |-> err, out |-> out]

Init ==
  /\ store = [i \in {} |-> NULL]
  /\ now = 0
  /\ result = Outcome("init", NULL, NULL, "ok", NULL)
  /\ tasks = [t \in Tasks |-> IdleTask]
  /\ config = DefaultConfig
  /\ cache = EmptyCache
  /\ call = NoCall
  /\ max_size = MaxSize
  /\ server_cache = EmptyCache
  /\ threads = [t \in Threads |-> IdleThread]
  /\ callers = [c \in Callers |-> NoCall]

\* time.time() advances between calls.
Tick ==
  /\ now < MaxTime
  /\ now' = now + 1
  /\ UNCHANGED <<store, result, tasks, clientVars, cacheVars>>

\* ------------------------------------------------------------------ registry

\* `payload.get("metadata") or {}`: an absent, None or empty entry gives {}.
PayloadMetadata(payload) ==
  IF payload.md.kind = "dict" THEN payload.md.d ELSE EmptyDict

\* RegistryService.create: the record built from the payload.
NewRecord(link_id, payload, issuer, t) ==
  LET rec == RegistryRecord(
               link_id,
               PyOr(DictGet(payload.f, "target_uri"), DictGet(payload.f, "targetUri")),
               PyOr(DictGet(payload.f, "media_type"), DictGet(payload.f, "mediaType")),
               DictGet(payload.f, "language"),
               PayloadMetadata(payload),
               t)
  IN [rec EXCEPT !.metadata = DictSetDefault(@, "issuer", issuer)]

\* RegistryService._generate_link_id: a random uuid4.  A collision with a
\* stored id has probability about 2^-122 per call and is left out: the
\* generator returns an id not in the store.
GenerateLinkId == LinkIds \ DOMAIN store

StorePut(s, link_id, rec) ==
  [i \in DOMAIN s \cup {link_id} |-> IF i = link_id THEN rec ELSE s[i]]

Create(payload, issuer) ==
  \E link_id \in GenerateLinkId :
    LET rec == NewRecord(link_id, payload, issuer, now)
    IN /\ store' = StorePut(store, link_id, rec)
       /\ result' = Outcome("create", link_id, NULL, "ok", rec)
       /\ UNCHANGED <<now, tasks, clientVars, cacheVars>>

\* A get_any that does not find withdrawn records.
GetAnyErr_HidesWithdrawn(link_id) ==
  IF link_id \in DOMAIN store /\ ~store[link_id].withdrawn.present
    THEN "ok" ELSE "LINKID_NOT_FOUND"

\* RegistryService.get_any: the record, or LinkIdNotFoundError.
GetAnyErr(link_id) ==
  IF link_id \in DOMAIN store THEN "ok" ELSE "LINKID_NOT_FOUND"

\* A get without the tombstone check: get_any's behaviour.
GetErr_IgnoresTombstone(link_id) ==
  IF link_id \notin DOMAIN store THEN "LINKID_NOT_FOUND" ELSE "ok"

\* RegistryService.get: the exception raised, "ok" when the record is returned.
GetErr(link_id) ==
  IF link_id \notin DOMAIN store THEN "LINKID_NOT_FOUND"
  ELSE IF store[link_id].withdrawn.present THEN "LINKID_WITHDRAWN"
  ELSE "ok"

\* LinkIdWithdrawnError.tombstone.
TombstoneDict(tombstone) == [reason |-> tombstone.reason, at |-> tombstone.at]

\* What get returns (the record) or what the raised error carries.
GetOut(link_id) ==
  CASE GetErr(link_id) = "ok" -> store[link_id]
    [] GetErr(link_id) = "LINKID_WITHDRAWN" -> TombstoneDict(store[link_id].withdrawn)
    [] OTHER -> NULL

Get(link_id) ==
  /\ result' = Outcome("get", link_id, NULL, GetErr(link_id), GetOut(link_id))
  /\ UNCHANGED <<store, now, tasks, clientVars, cacheVars>>

GetAny(link_id) ==
  /\ result' = Outcome("get_any", link_id, NULL, GetAnyErr(link_id),
                       IF GetAnyErr(link_id) = "ok" THEN store[link_id] ELSE NULL)
  /\ UNCHANGED <<store, now, tasks, clientVars, cacheVars>>

\* RegistryService.resolve: (record.target_uri, record) of get.
RegistryResolve(link_id) ==
  /\ result' = Outcome("resolve", link_id, NULL, GetErr(link_id),
                       IF GetErr(link_id) = "ok"
                         THEN <<store[link_id].target_uri, store[link_id]>>
                         ELSE GetOut(link_id))
  /\ UNCHANGED <<store, now, tasks, clientVars, cacheVars>>

\* The ownership check of update and withdraw:
\* `if issuer and issuer != user_sub: raise UnauthorizedError()`.
Unauthorized(rec, user_sub) ==
  LET issuer == DictGet(rec.metadata, "issuer")
  IN Truthy(issuer) /\ issuer /= user_sub

HasTargetKey(updates) == "target_uri" \in DOMAIN updates.f \/ "targetUri" \in DOMAIN updates.f
HasMediaKey(updates) == "media_type" \in DOMAIN updates.f \/ "mediaType" \in DOMAIN updates.f
HasLanguageKey(updates) == "language" \in DOMAIN updates.f
HasMetadataDict(updates) == updates.md.kind = "dict"

\* A flag that only a new target sets.
Changed_TargetOnly(updates) == HasTargetKey(updates)

\* The flag `changed` of update at the end of its four ifs.
Changed(updates) ==
  HasTargetKey(updates) \/ HasMediaKey(updates) \/ HasLanguageKey(updates)
    \/ HasMetadataDict(updates)

\* The field assignments of update.
ApplyFields(rec, updates) ==
  [rec EXCEPT
     !.target_uri = IF HasTargetKey(updates)
                      THEN PyOr(DictGet(updates.f, "target_uri"), DictGet(updates.f, "targetUri"))
                      ELSE @,
     !.media_type = IF HasMediaKey(updates)
                      THEN PyOr(DictGet(updates.f, "media_type"), DictGet(updates.f, "mediaType"))
                      ELSE @,
     !.language = IF HasLanguageKey(updates) THEN updates.f["language"] ELSE @,
     !.metadata = IF HasMetadataDict(updates) THEN DictUpdate(@, updates.md.d) ELSE @]

\* The record after update's body: the fields, then the version bump.
UpdatedRecord(rec, updates, t) ==
  IF Changed(updates)
    THEN [ApplyFields(rec, updates) EXCEPT !.version = @ + 1, !.updated = t]
    ELSE ApplyFields(rec, updates)

Update(link_id, updates, user_sub) ==
  /\ UNCHANGED <<now, tasks, clientVars, cacheVars>>
  /\ IF link_id \notin DOMAIN store
       THEN /\ result' = Outcome("update", link_id, NULL, "LINKID_NOT_FOUND", NULL)
            /\ UNCHANGED store
       ELSE IF Unauthorized(store[link_id], user_sub)
         THEN /\ result' = Outcome("update", link_id, NULL, "UNAUTHORIZED", NULL)
              /\ UNCHANGED store
         ELSE /\ Changed(updates) => store[link_id].version < MaxVersion
              /\ store' = [store EXCEPT ![link_id] = UpdatedRecord(@, updates, now)]
              /\ result' = Outcome("update", link_id, NULL, "ok", NULL)

\* The record after withdraw's body.
WithdrawnRecord(rec, data, t) ==
  [rec EXCEPT !.withdrawn = Tombstone(DictGet(data, "reason"), t)]

Withdraw(link_id, data, user_sub) ==
  /\ UNCHANGED <<now, tasks, clientVars, cacheVars>>
  /\ IF link_id \notin DOMAIN store
       THEN /\ result' = Outcome("withdraw", link_id, NULL, "LINKID_NOT_FOUND", NULL)
            /\ UNCHANGED store
       ELSE IF Unauthorized(store[link_id], user_sub)
         THEN /\ result' = Outcome("withdraw", link_id, NULL, "UNAUTHORIZED", NULL)
              /\ UNCHANGED store
         ELSE /\ store' = [store EXCEPT ![link_id] = WithdrawnRecord(@, data, now)]
              /\ result' = Outcome("withdraw", link_id, NULL, "ok", NULL)

\* ------------------------------------------------------------------ resolver

RedirectTtl == 300
MetadataTtl == 120
RedirectFallbackMaxAge == 3600
MetadataFallbackMaxAge == 1800

\* An etag built from the unrounded time.
Floor_Identity(t) == t

\* int(t) of a clock value.
Floor(t) == t \div TicksPerSecond

\* f'W/"{record.version}-{int(record.updated)}"', kept as its parts.
Etag(rec) == <<"W/", rec.version, Floor(rec.updated)>>

\* A resolver that wraps the registry's errors in an error kind of its own.
ResolverErr_Wrapped(link_id) ==
  IF GetErr(link_id) = "ok" THEN "ok" ELSE "RESOLVER_ERROR"

\* ResolverService.resolve re-raises what RegistryService.resolve raises.
ResolverErr(link_id) == GetErr(link_id)

\* A redirect marked permanent.
RedirectResult_Permanent(target_uri) ==
  [ type |-> "redirect",
    uri |-> target_uri,
    permanent |-> TRUE,
    cache_ttl |-> RedirectTtl,
    quality |-> "1.0" ]

RedirectResult(target_uri) ==
  [ type |-> "redirect",
    uri |-> target_uri,
    permanent |-> FALSE,
    cache_ttl |-> RedirectTtl,
    quality |-> "1.0" ]

MetadataResult(rec) ==
  [ type |-> "metadata",
    data |-> [ id |-> rec.id,
               target |-> rec.target_uri,
               mediaType |-> rec.media_type,
               language |-> rec.language,
               created |-> rec.created,
               updated |-> rec.updated,
               version |-> rec.version,
               metadata |-> rec.metadata ],
    cache_ttl |-> MetadataTtl,
    etag |-> Etag(rec) ]

\* ResolverService.resolve on a record that registry.resolve returned.
ResolutionResult(rec, prefer_redirect) ==
  IF prefer_redirect THEN RedirectResult(rec.target_uri) ELSE MetadataResult(rec)

ResolverResolve(link_id, prefer_redirect) ==
  /\ result' = Outcome("resolver.resolve", link_id, prefer_redirect, ResolverErr(link_id),
                       IF ResolverErr(link_id) = "ok"
                         THEN ResolutionResult(store[link_id], prefer_redirect)
                         ELSE GetOut(link_id))
  /\ UNCHANGED <<store, now, tasks, clientVars, cacheVars>>

\* ------------------------------------------------------------------ HTTP boundary

\* `a or b` on the integer a.
IntOr(a, b) == IF a = 0 THEN b ELSE a

\* resolve_linkid: the response for a result the resolver returned.
HttpResultResponse(res) ==
  IF res.type = "redirect"
    THEN [ status |-> IF res.permanent THEN 301 ELSE 302,
           location |-> res.uri,
           max_age |-> IntOr(res.cache_ttl, RedirectFallbackMaxAge),
           quality |-> PyOr(res.quality, "1.0") ]
    ELSE [ status |-> 200,
           body |-> res.data,
           max_age |-> IntOr(res.cache_ttl, MetadataFallbackMaxAge),
           etag |-> res.etag ]

\* resolve_linkid: the response for an exception with the given code.
HttpErrorResponse(link_id, code, carried) ==
  CASE code = "LINKID_NOT_FOUND" ->
         [ status |-> 404,
           detail |-> [error |-> "LinkID not found", linkId |-> link_id] ]
    [] code = "LINKID_WITHDRAWN" ->
         [ status |-> 410,
           detail |-> [ error |-> "LinkID withdrawn", linkId |-> link_id,
                        tombstone |-> carried ] ]
    [] OTHER -> [ status |-> 500, detail |-> "Internal resolver error" ]

\* GET /resolve/{linkid}?metadata=...: prefer_redirect is `not metadata`.
HttpResolveResponse(link_id, metadata) ==
  IF ResolverErr(link_id) = "ok"
    THEN HttpResultResponse(ResolutionResult(store[link_id], ~metadata))
    ELSE HttpErrorResponse(link_id, ResolverErr(link_id), GetOut(link_id))

HttpResolve(link_id, metadata) ==
  /\ result' = Outcome("GET /resolve", link_id, metadata, ResolverErr(link_id),
                       HttpResolveResponse(link_id, metadata))
  /\ UNCHANGED <<store, now, tasks, clientVars, cacheVars>>

Next ==
  \/ Tick
  \/ \E payload \in CreatePayloads, issuer \in Identities : Create(payload, issuer)
  \/ \E link_id \in LinkIds : Get(link_id)
  \/ \E link_id \in LinkIds : GetAny(link_id)
  \/ \E link_id \in LinkIds : RegistryResolve(link_id)
  \/ \E link_id \in LinkIds, prefer_redirect \in BOOLEAN :
       ResolverResolve(link_id, prefer_redirect)
  \/ \E link_id \in LinkIds, metadata \in BOOLEAN : HttpResolve(link_id, metadata)
  \/ \E link_id \in LinkIds, updates \in UpdateInputs, user_sub \in Identities :
       Update(link_id, updates, user_sub)
  \/ \E link_id \in LinkIds, data \in WithdrawInputs, user_sub \in Identities :
       Withdraw(link_id, data, user_sub)

Spec == Init /\ [][Next]_vars

\* ------------------------------------------------------------------ HTTP mutations

\* AuthService.authenticate returned None.
NoUser == [present |-> FALSE, sub |-> NULL, scopes |-> {}]

User(sub, scopes) == [present |-> TRUE, sub |-> sub, scopes |-> scopes]

\* An authentication that lets every token in.
Authenticate_AllowAll(token) == User("demo-user", {"read", "write"})

\* AuthService.authenticate.
Authenticate(token) ==
  IF ~Truthy(token) \/ token = "unauthorized" THEN NoUser
  ELSE IF token = "readonly" THEN User("demo-user", {"read"})
  ELSE User("demo-user", {"read", "write"})

\* get_current_user: no credentials give None, else the token's user.
GetCurrentUser(token) == IF token = NULL THEN NoUser ELSE Authenticate(token)

\* AuthService.has_scope.
HasScope(user, scope) == scope \in user.scopes

\* raise HTTPException(status_code, detail).
HttpException(status, detail) == [status |-> status, detail |-> detail]

\* register_linkid: the payload handed to ResolverService.register.
RegisterPayload(registration, user) ==
  Dict(("target_uri" :> registration.target_uri)
         @@ ("media_type" :> registration.media_type)
         @@ ("language" :> registration.language)
         @@ ("issuer" :> user.sub),
       registration.metadata)

\* ResolverService.register: `issuer = payload.get("issuer") or "unknown"`,
\* then RegistryService.create.
RegisteredRecord(link_id, payload, t) ==
  NewRecord(link_id, payload, PyOr(DictGet(payload.f, "issuer"), "unknown"), t)

\* POST /register.
HttpRegister(token, registration) ==
  LET user == GetCurrentUser(token)
  IN /\ UNCHANGED <<now, tasks, clientVars, cacheVars>>
     /\ IF ~user.present
          THEN /\ result' = Outcome("POST /register", NULL, token, "HTTP_401",
                                    HttpException(401, "Authentication required"))
               /\ UNCHANGED store
          ELSE IF ~HasScope(user, "write")
            THEN /\ result' = Outcome("POST /register", NULL, token, "HTTP_403",
                                      HttpException(403, "Write permission required"))
                 /\ UNCHANGED store
            ELSE \E link_id \in GenerateLinkId :
                   LET rec == RegisteredRecord(link_id, RegisterPayload(registration, user), now)
                   IN /\ store' = StorePut(store, link_id, rec)
                      /\ result' = Outcome("POST /register", link_id, token, "ok",
                                           [ status |-> 201,
                                             body |-> [ id |-> link_id,
                                                        uri |-> <<"https://w3id.org/linkid/", link_id>>,
                                                        created |-> rec.created ] ])

\* What RegistryService.update and withdraw raise, "ok" when they go through.
MutationErr(link_id, user_sub) ==
  IF link_id \notin DOMAIN store THEN "LINKID_NOT_FOUND"
  ELSE IF Unauthorized(store[link_id], user_sub) THEN "UNAUTHORIZED"
  ELSE "ok"

\* update_linkid and withdraw_linkid: the HTTPException for an error code.
MutationException(code, what) ==
  CASE code = "LINKID_NOT_FOUND" -> HttpException(404, "LinkID not found")
    [] code = "UNAUTHORIZED" -> HttpException(403, "Not authorized")
    [] OTHER -> HttpException(500, what)

\* PUT /resolve/{linkid}; a missing body is `updates or {}`.
HttpUpdate(link_id, token, updates) ==
  LET user == GetCurrentUser(token)
  IN /\ UNCHANGED <<now, tasks, clientVars, cacheVars>>
     /\ IF ~user.present
          THEN /\ result' = Outcome("PUT /resolve", link_id, token, "HTTP_401",
                                    HttpException(401, "Authentication required"))
               /\ UNCHANGED store
          ELSE IF MutationErr(link_id, user.sub) /= "ok"
            THEN /\ result' = Outcome("PUT /resolve", link_id, token,
                                      MutationErr(link_id, user.sub),
                                      MutationException(MutationErr(link_id, user.sub),
                                                        "Update failed"))
                 /\ UNCHANGED store
            ELSE /\ Changed(updates) => store[link_id].version < MaxVersion
                 /\ store' = [store EXCEPT ![link_id] = UpdatedRecord(@, updates, now)]
                 /\ result' = Outcome("PUT /resolve", link_id, token, "ok",
                                      [ status |-> 200,
                                        body |-> [id |-> link_id, updated |-> now] ])

\* DELETE /resolve/{linkid}; a missing body is `data or {}`.
HttpWithdraw(link_id, token, withdrawal_data) ==
  LET user == GetCurrentUser(token)
  IN /\ UNCHANGED <<now, tasks, clientVars, cacheVars>>
     /\ IF ~user.present
          THEN /\ result' = Outcome("DELETE /resolve", link_id, token, "HTTP_401",
                                    HttpException(401, "Authentication required"))
               /\ UNCHANGED store
          ELSE IF MutationErr(link_id, user.sub) /= "ok"
            THEN /\ result' = Outcome("DELETE /resolve", link_id, token,
                                      MutationErr(link_id, user.sub),
                                      MutationException(MutationErr(link_id, user.sub),
                                                        "Withdrawal failed"))
                 /\ UNCHANGED store
            ELSE /\ store' = [store EXCEPT ![link_id] = WithdrawnRecord(@, withdrawal_data, now)]
                 /\ result' = Outcome("DELETE /resolve", link_id, token, "ok",
                                      [ status |-> 200,
                                        body |-> [ id |-> link_id, withdrawn |-> now,
                                                   reason |-> DictGet(withdrawal_data, "reason") ] ])

\* The resolver as its HTTP clients drive it.
HttpNext ==
  \/ Tick
  \/ \E token \in Tokens, registration \in RegistrationBodies :
       HttpRegister(token, registration)
  \/ \E link_id \in LinkIds, token \in Tokens, updates \in HttpUpdateBodies :
       HttpUpdate(link_id, token, updates)
  \/ \E link_id \in LinkIds, token \in Tokens, withdrawal_data \in WithdrawInputs :
       HttpWithdraw(link_id, token, withdrawal_data)
  \/ \E link_id \in LinkIds, metadata \in BOOLEAN : HttpResolve(link_id, metadata)

SpecHttp == Init /\ [][HttpNext]_vars

\* ------------------------------------------------------------------ concurrent updates

\* A coroutine that preemption may interrupt anywhere.
CanRun_Preemptive(t) == TRUE

\* The event loop runs one coroutine until it suspends, and between the
\* first statement of RegistryService.update and its return nothing
\* suspends (`await self.get_any` runs inline): while one update is inside
\* its body no other coroutine runs.
CanRun(t) ==
  \A u \in Tasks \ {t} : tasks[u].pc \in {"idle", "start", "done"}

\* Two update requests for one id are issued and both are pending.
IssueUpdates(link_id, updates1, updates2, user_sub) ==
  /\ \A t \in Tasks : tasks[t].pc = "idle"
  /\ link_id \in DOMAIN store => store[link_id].version + 2 <= MaxVersion
  /\ LET base == IF link_id \in DOMAIN store THEN store[link_id].version ELSE 0
     IN tasks' = (1 :> Task("start", link_id, updates1, user_sub, base, 0, NULL))
                   @@ (2 :> Task("start", link_id, updates2, user_sub, base, 0, NULL))
  /\ UNCHANGED <<store, now, result, clientVars, cacheVars>>

\* update: the lookup and the ownership check.
TaskGetAny(t) ==
  /\ tasks[t].pc = "start"
  /\ CanRun(t)
  /\ tasks' = [tasks EXCEPT ![t] =
                 IF MutationErr(tasks[t].link_id, tasks[t].user_sub) /= "ok"
                   THEN [@ EXCEPT !.pc = "done",
                                  !.err = MutationErr(tasks[t].link_id, tasks[t].user_sub)]
                   ELSE [@ EXCEPT !.pc = "fields"]]
  /\ UNCHANGED <<store, now, result, clientVars, cacheVars>>

\* update: the four ifs that assign the fields.
TaskFields(t) ==
  /\ tasks[t].pc = "fields"
  /\ CanRun(t)
  /\ store' = [store EXCEPT ![tasks[t].link_id] = ApplyFields(@, tasks[t].updates)]
  /\ tasks' = [tasks EXCEPT ![t] =
                 IF Changed(@.updates) THEN [@ EXCEPT !.pc = "load"]
                 ELSE [@ EXCEPT !.pc = "done", !.err = "ok"]]
  /\ UNCHANGED <<now, result, clientVars, cacheVars>>

\* `record.version += 1`: the load of record.version.
TaskLoadVersion(t) ==
  /\ tasks[t].pc = "load"
  /\ CanRun(t)
  /\ tasks' = [tasks EXCEPT ![t] =
                 [@ EXCEPT !.pc = "store", !.loaded = store[tasks[t].link_id].version]]
  /\ UNCHANGED <<store, now, result, clientVars, cacheVars>>

\* `record.version += 1`: the store, then `record.updated = time.time()`
\* and the return.
TaskStoreVersion(t) ==
  /\ tasks[t].pc = "store"
  /\ CanRun(t)
  /\ store' = [store EXCEPT ![tasks[t].link_id] =
                 [@ EXCEPT !.version = tasks[t].loaded + 1, !.updated = now]]
  /\ tasks' = [tasks EXCEPT ![t] = [@ EXCEPT !.pc = "done", !.err = "ok"]]
  /\ UNCHANGED <<now, result, clientVars, cacheVars>>

\* Both requests were answered.
Collect ==
  /\ \A t \in Tasks : tasks[t].pc = "done"
  /\ tasks' = [t \in Tasks |-> IdleTask]
  /\ UNCHANGED <<store, now, result, clientVars, cacheVars>>

UpdatesNext ==
  \/ Tick
  \/ \E payload \in CreatePayloads, issuer \in Identities : Create(payload, issuer)
  \/ \E link_id \in LinkIds, updates1 \in TaskUpdates, updates2 \in TaskUpdates,
        user_sub \in Identities :
       IssueUpdates(link_id, updates1, updates2, user_sub)
  \/ \E t \in Tasks : TaskGetAny(t)
  \/ \E t \in Tasks : TaskFields(t)
  \/ \E t \in Tasks : TaskLoadVersion(t)
  \/ \E t \in Tasks : TaskStoreVersion(t)
  \/ Collect

SpecUpdates == Init /\ [][UpdatesNext]_vars

\* ------------------------------------------------------------------ SDK client

\* A retry count taken as given.
SelfRetries_Unclamped(retries) == retries

\* LinkIDClient.__init__: `self.retries = max(1, retries)`.
SelfRetries(retries) == IF retries > 1 THEN retries ELSE 1

\* re.match(r"^[A-Za-z0-9._~-]+$", link_id): `$` matches at the end of the
\* string and also just before a line feed that ends it.
RegexMatchesId(link_id) ==
  LET n == Len(link_id)
      body == IF n > 0 /\ link_id[n] = "\n" THEN n - 1 ELSE n
  IN body >= 1 /\ \A i \in 1..body : link_id[i] \in IdAlphabet

\* _validate_link_id returns without raising.
ValidLinkId(link_id) ==
  /\ Len(link_id) > 0
  /\ MinIdLen <= Len(link_id) /\ Len(link_id) <= MaxIdLen
  /\ RegexMatchesId(link_id)

\* _looks_like_url: re.match(r"^https?://", value).
LooksLikeUrl(value) == Len(value) > 0 /\ value[1] \in {"http://", "https://"}

\* _validate_registration_request returns without raising.
ValidRegistrationRequest(request) ==
  /\ "targetUri" \in DOMAIN request
  /\ Len(request["targetUri"]) > 0
  /\ LooksLikeUrl(request["targetUri"])

\* sorted(options) of the options dict resolve builds.
SortedOptionNames == <<"format", "language", "metadata", "timestamp", "version">>

\* f"{value}" of an option: None is "None", a bool "True" or "False".
OptionStr(options, name) ==
  IF name = "metadata"
    THEN IF options.metadata THEN <<"True">> ELSE <<"False">>
    ELSE IF options[name].given THEN options[name].s ELSE <<"None">>

\* The parts _cache_key appends from the i-th option on, each behind a "|".
RECURSIVE KeyParts(_, _)
KeyParts(options, i) ==
  IF i > Len(SortedOptionNames) THEN << >>
  ELSE <<"|", SortedOptionNames[i] \o "=">>
         \o OptionStr(options, SortedOptionNames[i])
         \o KeyParts(options, i + 1)

\* _cache_key: "|".join(["linkid", link_id, "key=value", ...]).
CacheKey(link_id, options) == <<"linkid", "|">> \o link_id \o KeyParts(options, 1)

\* The position of a key in TTLCache._store (a dict keeps insertion order),
\* 0 when it is missing.
CacheIndex(c, key) ==
  IF \E i \in 1..Len(c) : c[i].key = key
    THEN CHOOSE i \in 1..Len(c) : c[i].key = key
    ELSE 0

RemoveAt(c, i) == SubSeq(c, 1, i - 1) \o SubSeq(c, i + 1, Len(c))

\* TTLCache.get returns the value: the entry is there and
\* `expires_at < time.time()` is false.
CacheHit(c, key, t) ==
  CacheIndex(c, key) /= 0 /\ ~(c[CacheIndex(c, key)].expires_at < t)

\* TTLCache.get: the store it leaves, an expired entry popped.
CacheAfterGet(c, key, t) ==
  IF CacheIndex(c, key) /= 0 /\ c[CacheIndex(c, key)].expires_at < t
    THEN RemoveAt(c, CacheIndex(c, key))
    ELSE c

\* A cache that never counts as full.
AtCapacity_Never(c) == FALSE

\* TTLCache.set: `len(self._store) >= self.max_size`.
AtCapacity(c) == Len(c) >= max_size

\* `self._store[key] = (value, time.time() + float(ttl))`: a key the dict
\* holds keeps its place, a new key goes last.
CacheAssign(c, key, value, ttl, t) ==
  LET entry == [key |-> key, value |-> value, expires_at |-> t + ttl * TicksPerSecond]
  IN IF CacheIndex(c, key) /= 0
       THEN [c EXCEPT ![CacheIndex(c, key)] = entry]
       ELSE Append(c, entry)

\* TTLCache.set: at max_size the first key of the dict is popped, then the
\* entry is assigned with expiry time.time() + float(ttl).
CacheSet(c, key, value, ttl, t) ==
  CacheAssign(IF AtCapacity(c) THEN Tail(c) ELSE c, key, value, ttl, t)

\* A clear that leaves the store as it is.
CacheClear_Keep(c) == c

\* TTLCache.clear.
CacheClear(c) == EmptyCache

\* int(match.group(1)) of the digits the responses carry.
DecimalValue == ("0" :> 0) @@ ("300" :> 300) @@ ("120" :> 120)

\* A TTL that ignores the response's header.
CacheTtl_DefaultOnly(cache_control, default_ttl) == default_ttl

\* _cache_ttl: the first max-age=<digits> of the Cache-Control header, else
\* the cache's default_ttl.
CacheTtl(cache_control, default_ttl) ==
  LET s == cache_control.s
      hits == { i \in 1..(Len(s) - 1) : s[i] = "max-age=" /\ s[i + 1] \in DOMAIN DecimalValue }
      first == CHOOSE i \in hits : \A j \in hits : i <= j
  IN IF ~cache_control.given \/ Len(s) = 0 \/ hits = {} THEN default_ttl
     ELSE DecimalValue[s[first + 1]]

\* _handle_error: the class of the exception raised for a status.
ErrorClass(status) ==
  CASE status = 404 -> "LinkIDNotFoundError"
    [] status = 410 -> "LinkIDWithdrawnError"
    [] status \in {400, 422} -> "ValidationError"
    [] OTHER -> "LinkIDError"

\* _handle_error: the code of the exception raised.
ErrorCode(status, code) ==
  CASE status = 404 -> "NOT_FOUND"
    [] status = 410 -> "WITHDRAWN"
    [] status \in {400, 422} -> NULL
    [] status = 401 -> PyOr(code, "UNAUTHORIZED")
    [] status = 403 -> PyOr(code, "FORBIDDEN")
    [] status = 429 -> PyOr(code, "RATE_LIMITED")
    [] OTHER -> PyOr(code, "HTTP_ERROR")

\* _handle_error: the payload; a body that does not parse gives
\* {"error": response.text or f"HTTP {status}"}.
ErrorPayload(response) ==
  IF response.json = "invalid"
    THEN ("error" :> PyOr(response.text, "HTTP " \o ToString(response.status)))
    ELSE response.body

\* _handle_error: `payload.get("error") or payload.get("message") or f"HTTP {status}"`.
ErrorMessage(response) ==
  PyOr(PyOr(DictGet(ErrorPayload(response), "error"),
            DictGet(ErrorPayload(response), "message")),
       "HTTP " \o ToString(response.status))

\* The call ends by raising.
Raise(c, err, code, message) ==
  [c EXCEPT !.pc = "done", !.err = err, !.code = code, !.message = message,
            !.last_error = NULL]

\* The call ends by returning; the locals of _send_request are gone.
Return(c, out) == [c EXCEPT !.pc = "done", !.out = out, !.last_error = NULL]

\* _handle_error: `link_id or "unknown"`, the link_id of the error raised
\* for 404 and 410 (register passes no link_id).
ErrorLinkId(c, status) ==
  IF status \notin {404, 410} THEN NULL
  ELSE IF Len(c.link_id) > 0 THEN c.link_id ELSE <<"unknown">>

\* _handle_error: `payload.get("tombstone")` of the payload's top level,
\* which LinkIDWithdrawnError keeps as `tombstone or {}`.
ErrorTombstone(response) ==
  IF response.status /= 410 THEN NULL
  ELSE IF "tombstone" \in DOMAIN ErrorPayload(response)
    THEN ErrorPayload(response)["tombstone"]
    ELSE EmptyDict

\* _handle_error(response, link_id); payload.get on a parsed body that is
\* not a dict raises AttributeError.
HandleError(c, response) ==
  IF response.json = "array"
    THEN Raise(c, "AttributeError", NULL, "object has no attribute 'get'")
    ELSE [Raise(c, ErrorClass(response.status),
                ErrorCode(response.status, DictGet(ErrorPayload(response), "code")),
                ErrorMessage(response))
            EXCEPT !.err_link_id = ErrorLinkId(c, response.status),
                   !.tombstone = ErrorTombstone(response)]

\* response.json() raises on a body that is not JSON.
JsonRaises(c) == Raise(c, "JSONDecodeError", NULL, "Expecting value")

\* _send_request is entered: the loop `for attempt in range(1, self.retries + 1)`
\* starts its first attempt, or falls through to the raise when empty.
SendRequest(c) ==
  IF SelfRetries(config.retries) < 1
    THEN Raise(c, "NetworkError", NULL, NULL)
    ELSE [c EXCEPT !.pc = "sending", !.attempt = 1]

\* _require_api_key raises.
ApiKeyMissing == ~Truthy(config.api_key)

AuthRequired(c) ==
  Raise(c, "LinkIDError", "AUTH_REQUIRED", "API key required for this operation")

\* resolve, up to the transport call or the cached result.
ClientResolve(link_id, options, bypass_cache) ==
  LET c == NewCall("resolve", link_id, options, bypass_cache, EmptyDict)
      key == CacheKey(link_id, options)
  IN /\ call.pc = "done"
     /\ IF ~ValidLinkId(link_id)
          THEN /\ call' = Raise(c, "ValidationError", NULL, "invalid LinkID")
               /\ UNCHANGED cache
          ELSE IF config.caching /\ ~bypass_cache
            THEN /\ cache' = CacheAfterGet(cache, key, now)
                 /\ call' = IF CacheHit(cache, key, now)
                              THEN Return([c EXCEPT !.key = key],
                                          [cache[CacheIndex(cache, key)].value
                                             EXCEPT !.cached = TRUE])
                              ELSE SendRequest([c EXCEPT !.key = key])
            ELSE /\ call' = SendRequest([c EXCEPT !.key = key])
                 /\ UNCHANGED cache
     /\ UNCHANGED <<store, now, result, tasks, config, cacheVars>>

\* register, up to the transport call.
ClientRegister(request) ==
  LET c == NewCall("register", EmptyId, DefaultOptions, FALSE, request)
  IN /\ call.pc = "done"
     /\ call' = IF ApiKeyMissing THEN AuthRequired(c)
                ELSE IF ~ValidRegistrationRequest(request)
                  THEN Raise(c, "ValidationError", NULL, "invalid targetUri")
                  ELSE SendRequest(c)
     /\ UNCHANGED <<store, now, result, tasks, config, cache, cacheVars>>

\* update and withdraw, up to the transport call.
ClientMutation(op, link_id, request) ==
  LET c == NewCall(op, link_id, DefaultOptions, FALSE, request)
  IN /\ call.pc = "done"
     /\ call' = IF ApiKeyMissing THEN AuthRequired(c)
                ELSE IF ~ValidLinkId(link_id)
                  THEN Raise(c, "ValidationError", NULL, "invalid LinkID")
                  ELSE SendRequest(c)
     /\ UNCHANGED <<store, now, result, tasks, config, cache, cacheVars>>

ClientUpdate(link_id, request) == ClientMutation("update", link_id, request)

ClientWithdraw(link_id, request) == ClientMutation("withdraw", link_id, request)

\* _send_request: session.request raised Timeout or another
\* RequestException; the loop goes on or ends in NetworkError.
TransportFails(failure) ==
  /\ call.pc = "sending"
  /\ call' = IF call.attempt < SelfRetries(config.retries)
               THEN [call EXCEPT !.attempt = @ + 1, !.sent = @ + 1, !.last_error = failure]
               ELSE Raise([call EXCEPT !.sent = @ + 1], "NetworkError", NULL, failure)
  /\ UNCHANGED <<store, now, result, tasks, config, cache, cacheVars>>

RedirectStatuses == {301, 302, 303, 307, 308}

\* resolve after _send_request returned.
AfterResolveResponse(c, response) ==
  IF response.status \in RedirectStatuses
    THEN IF ~Truthy(response.location)
           THEN Raise(c, "LinkIDError", NULL,
                      "Resolver returned redirect without Location header")
           ELSE Return(c, RedirectResolution(c.link_id, response.location))
  ELSE IF response.status = 200
    THEN IF response.json = "invalid" THEN JsonRaises(c)
         ELSE Return(c, MetadataResolution(c.link_id, response.body))
    ELSE HandleError(c, response)

\* register after _send_request returned.
AfterRegisterResponse(c, response) ==
  IF response.status \notin {200, 201}
    THEN HandleError(c, response)
    ELSE IF response.json = "invalid" THEN JsonRaises(c)
    ELSE Return(c, JsonResult(response.body))

\* Response.ok: the status is below 400.
Ok(response) == response.status < 400

\* update and withdraw after _send_request returned.
AfterMutationResponse(c, response) ==
  IF ~Ok(response) THEN HandleError(c, response) ELSE Return(c, NoResult)

\* A client that caches and clears whether or not the call raised.
CacheAfterCall_AlsoOnError(c, done, response) ==
  IF ~config.caching THEN c
  ELSE IF done.op = "resolve"
    THEN CacheSet(c, done.key, done.out,
                  CacheTtl(response.cache_control, config.cache_ttl), now)
  ELSE IF done.op \in {"update", "withdraw"} THEN CacheClear(c)
  ELSE c

\* The cache after the statements that follow the response in resolve,
\* update and withdraw: `if self.caching: self.cache.set(...)` and
\* `if self.caching: self.cache.clear()`, which a call that raised never
\* reaches.
CacheAfterCall(c, done, response) ==
  IF ~config.caching \/ done.err /= "ok" THEN c
  ELSE IF done.op = "resolve"
    THEN CacheSet(c, done.key, done.out,
                  CacheTtl(response.cache_control, config.cache_ttl), now)
  ELSE IF done.op \in {"update", "withdraw"} THEN CacheClear(c)
  ELSE c

\* _send_request: session.request returned a response, which the public
\* method then turns into its result, caching it or clearing the cache.
TransportResponds(response) ==
  /\ call.pc = "sending"
  /\ LET c == [call EXCEPT !.sent = @ + 1, !.response = response]
         done == CASE call.op = "resolve" -> AfterResolveResponse(c, response)
                   [] call.op = "register" -> AfterRegisterResponse(c, response)
                   [] OTHER -> AfterMutationResponse(c, response)
     IN /\ call' = done
        /\ cache' = CacheAfterCall(cache, done, response)
  /\ UNCHANGED <<store, now, result, tasks, config, cacheVars>>

\* An attempt of the retry loop ends: session.request returns or raises
\* within its timeout.
Transport ==
  \/ \E failure \in TransportFailures : TransportFails(failure)
  \/ \E response \in TransportResponses : TransportResponds(response)

\* A client constructed with one of the configurations.
ClientInit ==
  /\ store = [i \in {} |-> NULL]
  /\ now = 0
  /\ result = Outcome("init", NULL, NULL, "ok", NULL)
  /\ tasks = [t \in Tasks |-> IdleTask]
  /\ config \in ClientConfigs
  /\ cache = EmptyCache
  /\ call = NoCall
  /\ max_size = MaxSize
  /\ server_cache = EmptyCache
  /\ threads = [t \in Threads |-> IdleThread]
  /\ callers = [c \in Callers |-> NoCall]

ClientNext ==
  \/ Tick
  \/ \E input \in ResolveInputs, bypass_cache \in BOOLEAN :
       ClientResolve(input.link_id, input.options, bypass_cache)
  \/ \E request \in RegisterRequests : ClientRegister(request)
  \/ \E link_id \in MutationLinkIds, request \in MutationRequests :
       ClientUpdate(link_id, request)
  \/ \E link_id \in MutationLinkIds, request \in MutationRequests :
       ClientWithdraw(link_id, request)
  \/ \E failure \in TransportFailures : TransportFails(failure)
  \/ \E response \in TransportResponses : TransportResponds(response)

SpecClient == ClientInit /\ [][ClientNext]_vars

\* Every attempt ends: the request has a timeout and the backoff sleep is finite.
SpecClientLive == ClientInit /\ [][ClientNext]_vars /\ WF_vars(Transport)

\* ------------------------------------------------------------------ caches

\* get returns None.
Miss == NULL

\* No other thread is inside a method of the cache.
Alone(t) == \A u \in Threads \ {t} : threads[u].pc = "idle"

\* TTLCache.get: `entry = self._store.get(key)`, and `return None` when
\* there is none.
ThreadGet(t, key) ==
  /\ threads[t].pc = "idle"
  /\ IF CacheIndex(cache, key) = 0
       THEN /\ result' = Outcome("TTLCache.get", NULL, NULL, "ok", Miss)
            /\ UNCHANGED threads
       ELSE /\ threads' = [threads EXCEPT ![t] =
                             Thread("get_expired", key, NULL, 0,
                                    cache[CacheIndex(cache, key)], NULL)]
            /\ UNCHANGED result
  /\ UNCHANGED <<store, now, tasks, config, cache, call, max_size, callers, server_cache>>

\* TTLCache.get: `if expires_at < time.time()`, and `return value` when not.
ThreadGetExpired(t) ==
  /\ threads[t].pc = "get_expired"
  /\ IF threads[t].entry.expires_at < now
       THEN /\ threads' = [threads EXCEPT ![t] = [@ EXCEPT !.pc = "get_pop"]]
            /\ UNCHANGED result
       ELSE /\ threads' = [threads EXCEPT ![t] = IdleThread]
            /\ result' = Outcome("TTLCache.get", NULL, NULL, "ok", threads[t].entry.value)
  /\ UNCHANGED <<store, now, tasks, config, cache, call, max_size, callers, server_cache>>

\* TTLCache.get: `self._store.pop(key, None)` and `return None`.
ThreadGetPop(t) ==
  /\ threads[t].pc = "get_pop"
  /\ cache' = IF CacheIndex(cache, threads[t].key) /= 0
                THEN RemoveAt(cache, CacheIndex(cache, threads[t].key))
                ELSE cache
  /\ threads' = [threads EXCEPT ![t] = IdleThread]
  /\ result' = Outcome("TTLCache.get", NULL, NULL, "ok", Miss)
  /\ UNCHANGED <<store, now, tasks, config, call, max_size, callers, server_cache>>

\* TTLCache.set: `if len(self._store) >= self.max_size`.
ThreadSet(t, key, value, ttl) ==
  /\ threads[t].pc = "idle"
  /\ threads' = [threads EXCEPT ![t] =
                   Thread(IF AtCapacity(cache) THEN "set_iter" ELSE "set_assign",
                          key, value, ttl, NoEntry, NULL)]
  /\ UNCHANGED <<store, now, result, tasks, config, cache, call, max_size, callers, server_cache>>

\* TTLCache.set: `next(iter(self._store))`, StopIteration on an empty dict.
ThreadSetIter(t) ==
  /\ threads[t].pc = "set_iter"
  /\ IF cache = EmptyCache
       THEN /\ threads' = [threads EXCEPT ![t] = IdleThread]
            /\ result' = Outcome("TTLCache.set", NULL, NULL, "StopIteration", NULL)
       ELSE /\ threads' = [threads EXCEPT ![t] =
                             [@ EXCEPT !.pc = "set_pop", !.first = cache[1].key]]
            /\ UNCHANGED result
  /\ UNCHANGED <<store, now, tasks, config, cache, call, max_size, callers, server_cache>>

\* TTLCache.set: `self._store.pop(<first key>)`, KeyError when it is gone.
ThreadSetPop(t) ==
  /\ threads[t].pc = "set_pop"
  /\ IF CacheIndex(cache, threads[t].first) = 0
       THEN /\ threads' = [threads EXCEPT ![t] = IdleThread]
            /\ result' = Outcome("TTLCache.set", NULL, NULL, "KeyError", NULL)
            /\ UNCHANGED cache
       ELSE /\ threads' = [threads EXCEPT ![t] = [@ EXCEPT !.pc = "set_assign"]]
            /\ cache' = RemoveAt(cache, CacheIndex(cache, threads[t].first))
            /\ UNCHANGED result
  /\ UNCHANGED <<store, now, tasks, config, call, max_size, callers, server_cache>>

\* TTLCache.set: `expiry = time.time() + float(ttl)` and
\* `self._store[key] = (value, expiry)`.
ThreadSetAssign(t) ==
  /\ threads[t].pc = "set_assign"
  /\ cache' = CacheAssign(cache, threads[t].key, threads[t].value, threads[t].ttl, now)
  /\ threads' = [threads EXCEPT ![t] = IdleThread]
  /\ result' = Outcome("TTLCache.set", NULL, NULL, "ok", NULL)
  /\ UNCHANGED <<store, now, tasks, config, call, max_size, callers, server_cache>>

\* TTLCache.clear.
ThreadClear(t) ==
  /\ threads[t].pc = "idle"
  /\ cache' = CacheClear(cache)
  /\ result' = Outcome("TTLCache.clear", NULL, NULL, "ok", NULL)
  /\ UNCHANGED <<store, now, tasks, config, call, max_size, callers, server_cache, threads>>

\* CacheService.get: the same statements as TTLCache.get, run on the event
\* loop without a suspension point.
ServerCacheGet(key) ==
  /\ server_cache' = CacheAfterGet(server_cache, key, now)
  /\ result' = Outcome("CacheService.get", NULL, NULL, "ok",
                       IF CacheHit(server_cache, key, now)
                         THEN server_cache[CacheIndex(server_cache, key)].value
                         ELSE Miss)
  /\ UNCHANGED <<store, now, tasks, clientVars, max_size, callers, threads>>

\* CacheService.set: `self._store[key] = (value, time.time() + float(ttl))`.
ServerCacheSet(key, value, ttl) ==
  /\ server_cache' = CacheAssign(server_cache, key, value, ttl, now)
  /\ result' = Outcome("CacheService.set", NULL, NULL, "ok", NULL)
  /\ UNCHANGED <<store, now, tasks, clientVars, max_size, callers, threads>>

\* CacheService.clear.
ServerCacheClear ==
  /\ server_cache' = CacheClear(server_cache)
  /\ result' = Outcome("CacheService.clear", NULL, NULL, "ok", NULL)
  /\ UNCHANGED <<store, now, tasks, clientVars, max_size, callers, threads>>

\* A TTLCache constructed with one of the sizes, and the server's cache.
CacheInit ==
  /\ store = [i \in {} |-> NULL]
  /\ now = 0
  /\ result = Outcome("init", NULL, NULL, "ok", NULL)
  /\ tasks = [t \in Tasks |-> IdleTask]
  /\ config = DefaultConfig
  /\ cache = EmptyCache
  /\ call = NoCall
  /\ max_size \in CacheSizes
  /\ server_cache = EmptyCache
  /\ threads = [t \in Threads |-> IdleThread]
  /\ callers = [c \in Callers |-> NoCall]

\* The steps inside the methods of TTLCache.
ThreadSteps ==
  \/ \E t \in Threads : ThreadGetExpired(t)
  \/ \E t \in Threads : ThreadGetPop(t)
  \/ \E t \in Threads : ThreadSetIter(t)
  \/ \E t \in Threads : ThreadSetPop(t)
  \/ \E t \in Threads : ThreadSetAssign(t)

\* The caches with one caller at a time.
CacheNext ==
  \/ Tick
  \/ \E t \in Threads, key \in CacheKeys : Alone(t) /\ ThreadGet(t, key)
  \/ \E t \in Threads, key \in CacheKeys, value \in CacheValues, ttl \in CacheTtls :
       Alone(t) /\ ThreadSet(t, key, value, ttl)
  \/ \E t \in Threads : Alone(t) /\ ThreadClear(t)
  \/ ThreadSteps
  \/ \E key \in ServerCacheKeys : ServerCacheGet(key)
  \/ \E key \in ServerCacheKeys, value \in CacheValues, ttl \in CacheTtls :
       ServerCacheSet(key, value, ttl)
  \/ ServerCacheClear

SpecCache == CacheInit /\ [][CacheNext]_vars

\* One TTLCache shared by threads that the interpreter may switch between
\* any two statements.
CacheThreadsNext ==
  \/ Tick
  \/ \E t \in Threads, key \in CacheKeys : ThreadGet(t, key)
  \/ \E t \in Threads, key \in CacheKeys, value \in ThreadValues, ttl \in ThreadTtls :
       ThreadSet(t, key, value, ttl)
  \/ \E t \in Threads : ThreadClear(t)
  \/ ThreadSteps

SpecCacheThreads == CacheInit /\ [][CacheThreadsNext]_vars

\* ------------------------------------------------------------------ client against this resolver

\* The characters of the identifiers the registry issues.
IdChars == ("ID1" :> GoodId)

\* The `linkid` path parameter of GET /resolve/{linkid} for the link_id the
\* client put into the URL: the registry's identifier with these characters,
\* or an identifier the registry never issued.
PathLinkId(link_id) ==
  IF \E i \in DOMAIN IdChars : IdChars[i] = link_id
    THEN CHOOSE i \in DOMAIN IdChars : IdChars[i] = link_id
    ELSE "unissued"

\* The resolve calls made against the resolver: no format, language, version
\* or timestamp, so the only query parameter _build_params sends is
\* metadata=true, which FastAPI parses into metadata=True.
ResolverInputs ==
  { ResolveInput(GoodId, [DefaultOptions EXCEPT !.metadata = m]) : m \in BOOLEAN }

\* Payloads of the records the resolver serves.
ResolverPayloads ==
  { Dict(("target_uri" :> TargetB) @@ ("mediaType" :> "text/html") @@ ("language" :> "en"),
         MdAbsent) }

\* The identity that owns them.
ResolverIdentities == {"demo-user"}

\* Responses of a server in the resolver's place: with max-age=0, with a
\* Cache-Control that has no max-age, and without the header.
ForeignResponses ==
  { Response(302, TargetA, Header(<<"public", ",", "max-age=", "0">>), EmptyDict),
    Response(200, NULL, Header(<<"no-cache">>), ("id" :> "ID1")),
    Response(300, TargetA, NoHeader, EmptyDict),
    Response(302, TargetA, NoHeader, EmptyDict) }

\* f"max-age={n}" as the pieces of the header value.
MaxAgeHeader(n) == Header(<<"max-age=", ToString(n)>>)

\* The response of resolve_linkid as the client's session receives it: a
\* RedirectResponse has Location and Cache-Control and no JSON body, a
\* JSONResponse has result.data as its body, and FastAPI answers an
\* HTTPException with the JSON object {"detail": exc.detail}.
WireResponse(r) ==
  CASE r.status \in {301, 302} ->
         [Response(r.status, r.location, MaxAgeHeader(r.max_age), EmptyDict)
            EXCEPT !.json = "invalid", !.text = ""]
    [] r.status = 200 -> Response(200, NULL, MaxAgeHeader(r.max_age), r.body)
    [] OTHER -> Response(r.status, NULL, NoHeader, ("detail" :> r.detail))

\* What this resolver answers to the request of the call in progress.
ResolverResponse(c) ==
  WireResponse(HttpResolveResponse(PathLinkId(c.link_id), c.options.metadata))

\* session.request reaches the resolver and returns its response.
ResolverResponds ==
  /\ call.op = "resolve"
  /\ TransportResponds(ResolverResponse(call))

\* A client and a resolver with an empty registry.
EndToEndInit ==
  /\ ClientInit
  /\ config \in {DefaultConfig, ClientConfig("key", 0, FALSE, DefaultCacheTtl)}

EndToEndNext ==
  \/ Tick
  \/ \E payload \in ResolverPayloads, issuer \in ResolverIdentities : Create(payload, issuer)
  \/ \E link_id \in LinkIds, data \in WithdrawInputs, user_sub \in ResolverIdentities :
       Withdraw(link_id, data, user_sub)
  \/ \E input \in ResolverInputs, bypass_cache \in BOOLEAN :
       ClientResolve(input.link_id, input.options, bypass_cache)
  \/ ResolverResponds
  \/ \E response \in ForeignResponses : TransportResponds(response)

SpecEndToEnd == EndToEndInit /\ [][EndToEndNext]_vars

\* ------------------------------------------------------------------ threads sharing a client

\* A string of the client from its pieces.
RECURSIVE Join(_)
Join(pieces) == IF pieces = << >> THEN "" ELSE pieces[1] \o Join(Tail(pieces))

\* The identifiers the registry can issue while threads share a client.
IssuableIds == {"ID1", "ID2"}

\* The calls the threads make: a metadata resolve, an update and a withdraw
\* of one identifier, and a register.
SharedOptions == [DefaultOptions EXCEPT !.metadata = TRUE]
SharedUpdate == ("targetUri" :> <<"https://", "example.org/new">>)
SharedRegistration == ("targetUri" :> <<"https://", "example.org/resource">>)

\* The client the threads share, with two attempts per request.
SharedRetries == 2
SharedConfig == ClientConfig("key", SharedRetries, TRUE, DefaultCacheTtl)

\* The thread that resolves and the thread that registers, updates and
\* withdraws.
Reader == "reader"
Writer == "writer"

\* The bearer token the resolver finds in a request of the client's
\* session: none (the client's own header is "ApiKey <key>", which
\* HTTPBearer does not take for credentials), or the token of the auth
\* the session was given.
SessionTokens == {NULL, "demo"}

\* The JSON body of register as RegistrationRequest parses it.
WireRegistration(request) ==
  RegistrationBody(Join(request["targetUri"]), NULL, NULL, MdAbsent)

\* The JSON body of update as the dict update_linkid receives.
WireUpdates(request) ==
  Dict([k \in DOMAIN request |-> Join(request[k])], MdAbsent)

\* FastAPI's answer to `raise HTTPException(status_code, detail)`.
WireException(e) == Response(e.status, NULL, NoHeader, ("detail" :> e.detail))

CallerStep(c, new) == callers' = [callers EXCEPT ![c] = new]

\* The request of a call has reached the resolver, which has handled it;
\* the response is on its way.
Handled(c, response) ==
  [c EXCEPT !.pc = "awaiting", !.sent = @ + 1, !.response = response]

\* resolve, up to the transport call or the cached result.
CallerResolve(t, link_id, options) ==
  LET c == NewCall("resolve", link_id, options, FALSE, EmptyDict)
      key == CacheKey(link_id, options)
  IN /\ callers[t].pc = "done"
     /\ ValidLinkId(link_id)
     /\ cache' = CacheAfterGet(cache, key, now)
     /\ CallerStep(t, IF CacheHit(cache, key, now)
                         THEN Return([c EXCEPT !.key = key],
                                     [cache[CacheIndex(cache, key)].value
                                        EXCEPT !.cached = TRUE])
                         ELSE SendRequest([c EXCEPT !.key = key]))
     /\ UNCHANGED <<store, now, result, tasks, config, call, max_size, server_cache, threads>>

\* register, update and withdraw, up to the transport call.
CallerMutation(t, op, link_id, request) ==
  /\ callers[t].pc = "done"
  /\ ~ApiKeyMissing
  /\ op = "register" => ValidRegistrationRequest(request)
  /\ op /= "register" => ValidLinkId(link_id)
  /\ CallerStep(t, SendRequest(NewCall(op, link_id, DefaultOptions, FALSE, request)))
  /\ UNCHANGED <<store, now, result, tasks, clientVars, max_size, server_cache, threads>>

\* GET /resolve/{linkid} for the request of a resolve.
ServerResolves(t) ==
  /\ callers[t].pc = "sending" /\ callers[t].op = "resolve"
  /\ CallerStep(t, Handled(callers[t], ResolverResponse(callers[t])))
  /\ UNCHANGED <<store, now, result, tasks, clientVars, max_size, server_cache, threads>>

\* POST /register for the request of a register.
ServerRegisters(t, token) ==
  LET user == GetCurrentUser(token)
      registration == WireRegistration(callers[t].request)
  IN /\ callers[t].pc = "sending" /\ callers[t].op = "register"
     /\ UNCHANGED <<now, result, tasks, clientVars, max_size, server_cache, threads>>
     /\ IF ~user.present
          THEN /\ CallerStep(t, Handled(callers[t],
                                 WireException(HttpException(401, "Authentication required"))))
               /\ UNCHANGED store
          ELSE IF ~HasScope(user, "write")
            THEN /\ CallerStep(t, Handled(callers[t],
                                   WireException(HttpException(403, "Write permission required"))))
                 /\ UNCHANGED store
            ELSE \E link_id \in IssuableIds \ DOMAIN store :
                   LET rec == RegisteredRecord(link_id, RegisterPayload(registration, user), now)
                   IN /\ store' = StorePut(store, link_id, rec)
                      /\ CallerStep(t, [Handled(callers[t],
                                                Response(201, NULL, NoHeader,
                                                         [id |-> link_id, created |-> rec.created]))
                                          EXCEPT !.created = @ + 1])

\* PUT and DELETE /resolve/{linkid} for the request of an update or a withdraw.
ServerMutates(t, token) ==
  LET user == GetCurrentUser(token)
      link_id == PathLinkId(callers[t].link_id)
      rec == IF callers[t].op = "update"
               THEN UpdatedRecord(store[link_id], WireUpdates(callers[t].request), now)
               ELSE WithdrawnRecord(store[link_id], callers[t].request, now)
  IN /\ callers[t].pc = "sending" /\ callers[t].op \in {"update", "withdraw"}
     /\ UNCHANGED <<now, result, tasks, clientVars, max_size, server_cache, threads>>
     /\ IF ~user.present
          THEN /\ CallerStep(t, Handled(callers[t],
                                 WireException(HttpException(401, "Authentication required"))))
               /\ UNCHANGED store
          ELSE IF MutationErr(link_id, user.sub) /= "ok"
            THEN /\ CallerStep(t, Handled(callers[t],
                                   WireException(MutationException(MutationErr(link_id, user.sub),
                                                                   "failed"))))
                 /\ UNCHANGED store
            ELSE /\ callers[t].op = "update" => store[link_id].version < MaxVersion
                 /\ store' = [store EXCEPT ![link_id] = rec]
                 /\ CallerStep(t, [Handled(callers[t],
                                           Response(200, NULL, NoHeader, [id |-> link_id]))
                                     EXCEPT !.applied = rec.version])

\* session.request returns the response; the public method turns it into
\* its result and, on a caching client, goes on to the cache.
ResponseArrives(t) ==
  /\ callers[t].pc = "awaiting"
  /\ LET c == callers[t]
         done == CASE c.op = "resolve" -> AfterResolveResponse(c, c.response)
                   [] c.op = "register" -> AfterRegisterResponse(c, c.response)
                   [] OTHER -> AfterMutationResponse(c, c.response)
     IN CallerStep(t, IF done.err /= "ok" \/ ~config.caching \/ c.op = "register" THEN done
                      ELSE [done EXCEPT !.pc = IF c.op = "resolve" THEN "storing"
                                               ELSE "clearing"])
  /\ UNCHANGED <<store, now, result, tasks, clientVars, max_size, server_cache, threads>>

\* session.request raises Timeout after the resolver handled the request:
\* _send_request goes on to its next attempt or ends in NetworkError.
ResponseLost(t, failure) ==
  /\ callers[t].pc = "awaiting"
  /\ CallerStep(t, IF callers[t].attempt < SelfRetries(config.retries)
                     THEN [callers[t] EXCEPT !.pc = "sending", !.attempt = @ + 1,
                                             !.last_error = failure,
                                             !.response = NoResponse]
                     ELSE Raise([callers[t] EXCEPT !.response = NoResponse],
                                "NetworkError", NULL, failure))
  /\ UNCHANGED <<store, now, result, tasks, clientVars, max_size, server_cache, threads>>

\* resolve: `self.cache.set(cache_key, result, ttl=ttl)` and the return.
CallerStores(t) ==
  /\ callers[t].pc = "storing"
  /\ cache' = CacheSet(cache, callers[t].key, callers[t].out,
                       CacheTtl(callers[t].response.cache_control, config.cache_ttl), now)
  /\ CallerStep(t, [callers[t] EXCEPT !.pc = "done"])
  /\ UNCHANGED <<store, now, result, tasks, config, call, max_size, server_cache, threads>>

\* update and withdraw: `self.cache.clear()` and the return.
CallerClears(t) ==
  /\ callers[t].pc = "clearing"
  /\ cache' = CacheClear(cache)
  /\ CallerStep(t, [callers[t] EXCEPT !.pc = "done"])
  /\ UNCHANGED <<store, now, result, tasks, config, call, max_size, server_cache, threads>>

\* One caching client with an API key, shared by the threads, and a
\* resolver with an empty registry.
CallersInit ==
  /\ store = [i \in {} |-> NULL]
  /\ now = 0
  /\ result = Outcome("init", NULL, NULL, "ok", NULL)
  /\ tasks = [t \in Tasks |-> IdleTask]
  /\ config = SharedConfig
  /\ cache = EmptyCache
  /\ call = NoCall
  /\ max_size = MaxSize
  /\ server_cache = EmptyCache
  /\ threads = [t \in Threads |-> IdleThread]
  /\ callers = [c \in Callers |-> NoCall]

CallersNext ==
  \/ Tick
  \/ CallerResolve(Reader, GoodId, SharedOptions)
  \/ CallerMutation(Writer, "register", EmptyId, SharedRegistration)
  \/ CallerMutation(Writer, "update", GoodId, SharedUpdate)
  \/ CallerMutation(Writer, "withdraw", GoodId, EmptyDict)
  \/ \E t \in Callers : ServerResolves(t)
  \/ \E t \in Callers, token \in SessionTokens : ServerRegisters(t, token)
  \/ \E t \in Callers, token \in SessionTokens : ServerMutates(t, token)
  \/ \E t \in Callers : ResponseArrives(t)
  \/ \E t \in Callers : ResponseLost(t, "Timeout")
  \/ \E t \in Callers : CallerStores(t)
  \/ \E t \in Callers : CallerClears(t)

SpecCallers == CallersInit /\ [][CallersNext]_vars

\* ------------------------------------------------------------------ properties

Known(link_id) == link_id \in DOMAIN store
Active(link_id) == Known(link_id) /\ ~store[link_id].withdrawn.present
IsWithdrawn(link_id) == Known(link_id) /\ store[link_id].withdrawn.present

\* The stored issuer of a record.
IssuerOf(rec) == DictGet(rec.metadata, "issuer")

\* The recognized fields of a record.
FieldsOf(rec) == <<rec.target_uri, rec.media_type, rec.language, rec.metadata>>

\* C1: for every update call made by a record's issuer, version and updated
\* are unchanged when no recognized field's stored value changes, and
\* version increases by exactly 1 when at least one changes.
C1_VersionBumpIffFieldChanged ==
  [][\A link_id \in LinkIds, updates \in UpdateInputs, user_sub \in Identities :
       (/\ Known(link_id)
        /\ user_sub = IssuerOf(store[link_id])
        /\ Update(link_id, updates, user_sub))
       => /\ result'.err = "ok"
          /\ IF FieldsOf(store'[link_id]) = FieldsOf(store[link_id])
               THEN /\ store'[link_id].version = store[link_id].version
                    /\ store'[link_id].updated = store[link_id].updated
               ELSE store'[link_id].version = store[link_id].version + 1]_vars

\* C2: once a record is withdrawn it stays withdrawn in every later state,
\* and every get and resolve of it fails Withdrawn carrying the stored reason.
C2_WithdrawnForever ==
  [][\A link_id \in LinkIds :
       IsWithdrawn(link_id)
       => /\ link_id \in DOMAIN store'
          /\ store'[link_id].withdrawn.present
          /\ (result'.op \in {"get", "resolve"} /\ result'.id = link_id)
               => /\ result'.err = "LINKID_WITHDRAWN"
                  /\ result'.out.reason = store'[link_id].withdrawn.reason]_vars

\* A get or resolve answered Withdrawn on a record that was updated and is
\* read after its withdrawal.
C2_Witness ==
  /\ result.op \in {"get", "resolve"}
  /\ result.err = "LINKID_WITHDRAWN"
  /\ IsWithdrawn(result.id)
  /\ store[result.id].version > 1
  /\ result.out.reason = "owner request"

\* C3: no update call changes the target, media type, language, metadata,
\* version or updated of a withdrawn record.
C3_WithdrawnIsTerminal ==
  [][\A link_id \in LinkIds, updates \in UpdateInputs, user_sub \in Identities :
       (IsWithdrawn(link_id) /\ Update(link_id, updates, user_sub))
       => /\ FieldsOf(store'[link_id]) = FieldsOf(store[link_id])
          /\ store'[link_id].version = store[link_id].version
          /\ store'[link_id].updated = store[link_id].updated]_vars

\* C4: update or withdraw by an identity other than the stored issuer fails
\* Unauthorized, whatever the stored issuer is, and changes nothing.
C4_NonIssuerRejected ==
  [][\A link_id \in LinkIds, user_sub \in Identities :
       (/\ Known(link_id)
        /\ user_sub /= IssuerOf(store[link_id])
        /\ \/ \E updates \in UpdateInputs : Update(link_id, updates, user_sub)
           \/ \E data \in WithdrawInputs : Withdraw(link_id, data, user_sub))
       => /\ result'.err = "UNAUTHORIZED"
          /\ store' = store]_vars

\* C5: once a record has a tombstone, its reason and timestamp never change.
C5_TombstoneImmutable ==
  [][\A link_id \in LinkIds :
       IsWithdrawn(link_id) => store'[link_id].withdrawn = store[link_id].withdrawn]_vars

\* A step that is a successful update changing a recognized field's value.
FieldChangingUpdate(link_id) ==
  /\ \E updates \in UpdateInputs, user_sub \in Identities :
       Update(link_id, updates, user_sub)
  /\ result'.err = "ok"
  /\ FieldsOf(store'[link_id]) /= FieldsOf(store[link_id])

\* C6: a record starts at version 1, every successful field-changing update
\* adds exactly 1, no other step changes version (so it never decreases and
\* equals 1 plus the number of such updates), and a withdraw leaves version
\* and updated as they were.
C6_VersionCountsFieldChanges ==
  [][\A link_id \in LinkIds :
       /\ (~Known(link_id) /\ link_id \in DOMAIN store') => store'[link_id].version = 1
       /\ Known(link_id)
            => /\ store'[link_id].version =
                    store[link_id].version + (IF FieldChangingUpdate(link_id) THEN 1 ELSE 0)
               /\ (\E data \in WithdrawInputs, user_sub \in Identities :
                     Withdraw(link_id, data, user_sub))
                    => store'[link_id].updated = store[link_id].updated]_vars

\* C8: resolving an active id with a redirect preferred yields a Redirect to
\* the record's current target, not permanent, cacheTtl 300, quality 1.0;
\* the HTTP boundary answers 302 with that Location and max-age 300; right
\* after a successful update that sets a target, the redirect is to it.
C8_RedirectToCurrentTarget ==
  [][\A link_id \in LinkIds :
       (result'.id = link_id /\ Active(link_id)')
       => /\ (result'.op = "resolver.resolve" /\ result'.arg = TRUE)
               => /\ result'.err = "ok"
                  /\ result'.out = [ type |-> "redirect",
                                     uri |-> store'[link_id].target_uri,
                                     permanent |-> FALSE,
                                     cache_ttl |-> 300,
                                     quality |-> "1.0" ]
          /\ (result'.op = "GET /resolve" /\ result'.arg = FALSE)
               => /\ result'.out.status = 302
                  /\ result'.out.location = store'[link_id].target_uri
                  /\ result'.out.max_age = 300
                  /\ result'.out.quality = "1.0"
          /\ (result'.op = "update" /\ result'.err = "ok")
               => \A user_sub \in Identities, t \in {TargetA, TargetB} :
                    Update(link_id, Dict(("targetUri" :> t), MdAbsent), user_sub)
                    => /\ HttpResolveResponse(link_id, FALSE)'.status = 302
                       /\ HttpResolveResponse(link_id, FALSE)'.location = t]_vars

\* A 302 to the new target, answered for a record whose target an update
\* changed.
C8_Witness ==
  /\ result.op = "GET /resolve"
  /\ result.out.status = 302
  /\ result.out.location = TargetB
  /\ Active(result.id)
  /\ store[result.id].version = 2
  /\ store[result.id].target_uri = TargetB

\* The public fields of a record, as a metadata answer lists them.
C9_Data(rec) ==
  [ id |-> rec.id,
    target |-> rec.target_uri,
    mediaType |-> rec.media_type,
    language |-> rec.language,
    created |-> rec.created,
    updated |-> rec.updated,
    version |-> rec.version,
    metadata |-> rec.metadata ]

\* C9: resolving an active id without a redirect preferred yields a Metadata
\* result holding the record's current id, target, mediaType, language,
\* created, updated, version and metadata, with cacheTtl 120 and an etag of
\* the version and the floor of updated; right after create the data has
\* version 1 and the created target.
C9_MetadataSnapshot ==
  [][\A link_id \in LinkIds :
       (result'.id = link_id /\ Active(link_id)')
       => LET rec == store'[link_id]
              etag == <<"W/", rec.version, rec.updated \div TicksPerSecond>>
          IN /\ (result'.op = "resolver.resolve" /\ result'.arg = FALSE)
                  => /\ result'.err = "ok"
                     /\ result'.out = [ type |-> "metadata",
                                        data |-> C9_Data(rec),
                                        cache_ttl |-> 120,
                                        etag |-> etag ]
             /\ (result'.op = "GET /resolve" /\ result'.arg = TRUE)
                  => /\ result'.out.status = 200
                     /\ result'.out.body = C9_Data(rec)
                     /\ result'.out.body.id = link_id
                     /\ result'.out.max_age = 120
                     /\ result'.out.etag = etag
             /\ result'.op = "create"
                  => \A user_sub \in Identities, payload \in CreatePayloads :
                       (/\ Create(payload, user_sub)
                        /\ DOMAIN payload.f \cap {"target_uri", "targetUri"} /= {})
                       => /\ HttpResolveResponse(link_id, TRUE)'.status = 200
                          /\ HttpResolveResponse(link_id, TRUE)'.body.version = 1
                          /\ \E k \in DOMAIN payload.f :
                               HttpResolveResponse(link_id, TRUE)'.body.target = payload.f[k]]_vars

\* A metadata answer for a record updated after the clock moved on, so that
\* the floor of its updated time differs from the time itself.
C9_Witness ==
  /\ result.op = "GET /resolve"
  /\ result.out.status = 200
  /\ result.out.body.version = 2
  /\ result.out.body.updated = 1
  /\ result.out.body.created = 0
  /\ result.out.etag = <<"W/", 2, 0>>

\* C10: resolving an unknown id fails NotFound and the HTTP boundary answers
\* 404 'LinkID not found'; resolving a withdrawn id fails Withdrawn and the
\* HTTP boundary answers 410 'LinkID withdrawn' with the tombstone reason,
\* which right after a withdrawal is the reason that withdrawal gave.
C10_ErrorsPropagate ==
  [][\A link_id \in LinkIds :
       result'.id = link_id
       => /\ (result'.op = "resolver.resolve" /\ ~Known(link_id)')
               => result'.err = "LINKID_NOT_FOUND"
          /\ (result'.op = "GET /resolve" /\ ~Known(link_id)')
               => /\ result'.out.status = 404
                  /\ result'.out.detail.error = "LinkID not found"
                  /\ result'.out.detail.linkId = link_id
          /\ (result'.op = "resolver.resolve" /\ IsWithdrawn(link_id)')
               => /\ result'.err = "LINKID_WITHDRAWN"
                  /\ result'.out.reason = store'[link_id].withdrawn.reason
          /\ (result'.op = "GET /resolve" /\ IsWithdrawn(link_id)')
               => /\ result'.out.status = 410
                  /\ result'.out.detail.error = "LinkID withdrawn"
                  /\ result'.out.detail.linkId = link_id
                  /\ result'.out.detail.tombstone.reason = store'[link_id].withdrawn.reason
          /\ (result'.op = "withdraw" /\ result'.err = "ok")
               => \A data \in WithdrawInputs, user_sub \in Identities, flag \in BOOLEAN :
                    Withdraw(link_id, data, user_sub)
                    => /\ HttpResolveResponse(link_id, flag)'.status = 410
                       /\ HttpResolveResponse(link_id, flag)'.detail.tombstone.reason
                            = DictGet(data, "reason")]_vars

\* A 410 carrying the reason of the withdrawal.
C10_Witness ==
  /\ result.op = "GET /resolve"
  /\ result.err = "LINKID_WITHDRAWN"
  /\ result.out.status = 410
  /\ result.out.detail.tombstone.reason = "owner request"

\* ------------------------------------------------------------------ C11

\* C11: when two field-changing updates of the same id, whose record
\* existed when they were issued (base > 0), are pending at the same time
\* and both succeed, the record's version ends two above the version it
\* had when they were issued, and no update stores a version
\* computed from a version another update has overwritten since.
C11_ConcurrentUpdatesNotLost ==
  [][/\ (\A t \in Tasks : /\ tasks'[t].pc = "done"
                          /\ tasks'[t].err = "ok"
                          /\ tasks'[t].base > 0
                          /\ Changed(tasks'[t].updates))
          => \A t \in Tasks : store'[tasks'[t].link_id].version = tasks'[t].base + 2
     /\ \A t \in Tasks :
          (tasks[t].pc = "store" /\ tasks'[t].pc = "done")
            => tasks[t].loaded = store[tasks[t].link_id].version]_vars

\* Both concurrent updates, with different bodies, changed fields and succeeded.
C11_Witness ==
  /\ \A t \in Tasks : tasks[t].pc = "done" /\ tasks[t].err = "ok" /\ Changed(tasks[t].updates)
  /\ tasks[1].base > 0
  /\ tasks[1].updates /= tasks[2].updates
  /\ store[tasks[1].link_id].version = tasks[1].base + 2

\* ------------------------------------------------------------------ C12

\* The entry TTLCache._store holds for a key.
EntryOf(c, key) == c[CacheIndex(c, key)]

\* The cache holds an entry for the key whose TTL has not elapsed.
Fresh(c, key, t) == CacheIndex(c, key) /= 0 /\ t < EntryOf(c, key).expires_at

\* A public call of the client starts in this step.
CallStarts == call.pc = "done" /\ call' /= call

\* The transport call of the pending call ends this step and the call returns.
CallReturns == call.pc = "sending" /\ call'.pc = "done" /\ call'.err = "ok"

\* C12: with caching enabled a successful resolve stores what it returns;
\* until the TTL elapses that entry is replaced only by a newer result of a
\* resolve with the same id and options and removed only by a successful
\* update or withdraw; and a resolve with the same id and options before
\* the TTL has elapsed returns the entry's content flagged cached=true
\* without a transport call.
C12_SecondResolveFromCache ==
  [][/\ (CallReturns /\ call'.op = "resolve" /\ config.caching)
          => /\ CacheIndex(cache', call'.key) /= 0
             /\ EntryOf(cache', call'.key).value = call'.out
             /\ EntryOf(cache', call'.key).expires_at >= now
     /\ \A input \in ResolveInputs :
          LET key == CacheKey(input.link_id, input.options)
          IN Fresh(cache, key, now)
               => /\ (CacheIndex(cache', key) = 0 \/ EntryOf(cache', key) /= EntryOf(cache, key))
                       => \/ CallReturns /\ call'.op \in {"update", "withdraw"}
                          \/ /\ CallReturns /\ call'.op = "resolve"
                             /\ call'.link_id = input.link_id
                             /\ call'.options = input.options
                  /\ ( /\ config.caching /\ CallStarts /\ call'.op = "resolve"
                       /\ call'.link_id = input.link_id /\ call'.options = input.options
                       /\ ~call'.bypass_cache )
                       => /\ call'.pc = "done" /\ call'.err = "ok"
                          /\ call'.out = [EntryOf(cache, key).value EXCEPT !.cached = TRUE]
                          /\ call'.sent = 0]_vars

\* ------------------------------------------------------------------ C13

\* C13: the key resolve computed for its call is the key of every call with
\* the same id and the same option values, and of no call that differs in
\* the id or in the metadata flag.
C13_KeyIndependence ==
  \A input \in ResolveInputs :
    (call.op = "resolve" /\ call.key /= << >>)
      => /\ (input.link_id = call.link_id /\ input.options = call.options)
              => CacheKey(input.link_id, input.options) = call.key
         /\ (input.link_id /= call.link_id \/ input.options.metadata /= call.options.metadata)
              => CacheKey(input.link_id, input.options) /= call.key

\* ------------------------------------------------------------------ C14

\* max(1, retries) of the configured retries.
C14_MaxAttempts == IF config.retries > 1 THEN config.retries ELSE 1

\* C14: a request makes at most max(1, retries) transport attempts and
\* always ends; it ends with the response of the first attempt that got
\* one, whatever failed before, and it ends in NetworkError, carrying the
\* last failure, exactly when all max(1, retries) attempts failed.
C14_BoundedRetries ==
  /\ [](/\ call.sent <= C14_MaxAttempts
        /\ call.pc = "sending" => call.sent < C14_MaxAttempts
        /\ call.err = "NetworkError"
             => /\ call.sent = C14_MaxAttempts
                /\ call.message \in TransportFailures
                /\ call.response = NoResponse)
  /\ [][(call.pc = "sending" /\ call'.pc = "done" /\ call'.err /= "NetworkError")
          => /\ call'.response \in TransportResponses
             /\ call'.sent = call.sent + 1
             /\ ( /\ call'.op = "resolve" /\ call'.response.status = 200
                  /\ call'.response.json = "object" )
                  => call'.err = "ok"]_vars
  /\ (call.pc = "sending") ~> (call.pc = "done")

\* Two attempts failed, the third got a response and the call succeeded.
C14_Witness ==
  /\ call.op = "resolve" /\ call.pc = "done" /\ call.err = "ok"
  /\ call.sent = 3 /\ config.retries = 3

\* ------------------------------------------------------------------ C15

\* The exception classes of the client.
TypedErrors ==
  {"LinkIDError", "NetworkError", "ValidationError", "LinkIDNotFoundError",
   "LinkIDWithdrawnError"}

\* C15: the attempt that receives a response, whatever its status, is the
\* last one of its call: the call ends in that step, returning or raising
\* one of the client's exception classes.
C15_ResponseNeverRetried ==
  [][/\ (call.pc = "sending" /\ call'.response /= NoResponse)
          => /\ call'.pc = "done"
             /\ call'.sent = call.sent + 1
             /\ call'.err \in {"ok"} \cup TypedErrors
     /\ call'.response /= NoResponse => call'.pc = "done"]_vars

\* ------------------------------------------------------------------ C16

\* The identifier rule: 32 to 64 characters of [A-Za-z0-9._~-].
C16_ConformingId(link_id) ==
  /\ MinIdLen <= Len(link_id) /\ Len(link_id) <= MaxIdLen
  /\ \A i \in 1..Len(link_id) : link_id[i] \in IdAlphabet

\* The call that starts ends at once with the exception, without a
\* transport call and with the cache as it was.
C16_FailsLocally(err, code) ==
  /\ call'.pc = "done" /\ call'.err = err /\ call'.code = code
  /\ call'.sent = 0
  /\ cache' = cache

\* C16: register, update and withdraw without an API key fail with
\* AUTH_REQUIRED; otherwise resolve, update and withdraw with an identifier
\* that breaks the identifier rule, and register without an absolute
\* targetUri, fail with ValidationError; each time without a transport
\* call and with the cache unchanged.
C16_LocalFailuresStayLocal ==
  [][CallStarts
       => /\ (call'.op \in {"register", "update", "withdraw"} /\ ApiKeyMissing)
               => C16_FailsLocally("LinkIDError", "AUTH_REQUIRED")
          /\ ( /\ call'.op \in {"resolve", "update", "withdraw"}
               /\ call'.op = "resolve" \/ ~ApiKeyMissing
               /\ ~C16_ConformingId(call'.link_id) )
               => C16_FailsLocally("ValidationError", NULL)
          /\ (call'.op = "register" /\ ~ApiKeyMissing
                /\ ~ValidRegistrationRequest(call'.request))
               => C16_FailsLocally("ValidationError", NULL)]_vars

\* ------------------------------------------------------------------ C17

\* C17: when an update or a withdraw of the client returns, the client's
\* cache holds no entry at all.
C17_MutationEmptiesCache ==
  [][(CallReturns /\ call'.op \in {"update", "withdraw"}) => cache' = EmptyCache]_vars

\* An update returned on a caching client whose cache is empty.
C17_Witness ==
  /\ call.op = "update" /\ call.pc = "done" /\ call.err = "ok" /\ call.sent > 0
  /\ config.caching
  /\ cache = EmptyCache

\* ------------------------------------------------------------------ C18

HttpMutations == {"POST /register", "PUT /resolve", "DELETE /resolve"}

\* C18: a register, update or withdraw request whose token is missing or
\* not accepted is answered 401, and a register request with the read-only
\* token 403; neither changes the registry's store.
C18_AuthBeforeRegistry ==
  [][result'.op \in HttpMutations
       => /\ result'.arg \in {NULL, "", "unauthorized"}
               => result'.out.status = 401 /\ store' = store
          /\ (result'.op = "POST /register" /\ result'.arg = "readonly")
               => result'.out.status = 403 /\ store' = store]_vars

\* An update without an accepted token was answered 401 while the record exists.
C18_Witness ==
  /\ result.op = "PUT /resolve" /\ result.arg = "unauthorized"
  /\ result.out.status = 401
  /\ Active("ID1")

\* ------------------------------------------------------------------ C19

AbsoluteUris == {TargetA, TargetB}

\* The payload carries an absolute targetUri.
C19_AbsoluteTargetGiven(payload) ==
  \/ DictGet(payload.f, "targetUri") \in AbsoluteUris
  \/ DictGet(payload.f, "target_uri") \in AbsoluteUris

\* C19: a create whose payload has no targetUri, or one that is not an
\* absolute URI, raises a validation error and leaves the store as it was.
C19_CreateRejectsBadTarget ==
  [][result'.op = "create"
       => \A payload \in CreatePayloads, issuer \in Identities :
            (~C19_AbsoluteTargetGiven(payload) /\ Create(payload, issuer))
              => result'.err = "VALIDATION_ERROR" /\ store' = store]_vars

\* ------------------------------------------------------------------ C20

\* The targetUri a create payload gives, under either spelling of the key.
C20_GivenTarget(payload) ==
  IF "targetUri" \in DOMAIN payload.f THEN payload.f["targetUri"]
  ELSE IF "target_uri" \in DOMAIN payload.f THEN payload.f["target_uri"]
  ELSE NULL

\* C20: right after a create the new record has version 1, no tombstone
\* and updated equal to created, and get and resolve of its id succeed
\* with the targetUri of the payload.
C20_FreshRecord ==
  [][result'.op = "create"
       => \A link_id \in LinkIds, payload \in CreatePayloads, issuer \in Identities :
            (result'.id = link_id /\ Create(payload, issuer))
              => /\ store'[link_id].version = 1
                 /\ ~store'[link_id].withdrawn.present
                 /\ store'[link_id].updated = store'[link_id].created
                 /\ GetErr(link_id)' = "ok"
                 /\ GetOut(link_id)'.target_uri = C20_GivenTarget(payload)
                 /\ GetAnyErr(link_id)' = "ok"
                 /\ ResolverErr(link_id)' = "ok"
                 /\ ResolutionResult(store[link_id], TRUE)'.uri = C20_GivenTarget(payload)
                 /\ result'.out = store'[link_id]]_vars

\* A create with a targetUri has just stored its record.
C20_Witness ==
  /\ result.op = "create" /\ result.err = "ok"
  /\ \E link_id \in LinkIds :
       /\ result.id = link_id
       /\ Known(link_id)
       /\ store[link_id].target_uri = TargetB
       /\ store[link_id].version = 1

\* ------------------------------------------------------------------ C21

\* C21: the record a create stores has metadata.issuer equal to the
\* identity that called create, whatever the payload's metadata holds, and
\* of all identities exactly that one passes the ownership check of update
\* and withdraw.
C21_IssuerRecordsCreator ==
  [][result'.op = "create"
       => \A link_id \in LinkIds, payload \in CreatePayloads, issuer \in Identities :
            (result'.id = link_id /\ Create(payload, issuer))
              => /\ "issuer" \in DOMAIN store'[link_id].metadata
                 /\ store'[link_id].metadata["issuer"] = issuer
                 /\ \A user_sub \in Identities :
                      Unauthorized(store'[link_id], user_sub) <=> user_sub /= issuer]_vars

\* ------------------------------------------------------------------ C22

RegistryReads == {"get", "get_any", "resolve"}
RegistryCalls == RegistryReads \cup {"update", "withdraw"}

\* C22: no record ever leaves the store and only create adds one, so an id
\* is in the store exactly when it was created; get, get_any, resolve,
\* update and withdraw fail NotFound exactly when the id is not in the
\* store, and then change nothing; for a withdrawn id get_any returns the
\* record, get and resolve fail Withdrawn, and a withdraw by the issuer
\* goes through.
C22_NotFoundIffNeverCreated ==
  [][/\ DOMAIN store \subseteq DOMAIN store'
     /\ DOMAIN store' /= DOMAIN store => result'.op = "create"
     /\ result'.op \in RegistryCalls
          => \A link_id \in LinkIds :
               result'.id = link_id
                 => /\ result'.err = "LINKID_NOT_FOUND" <=> ~Known(link_id)
                    /\ result'.err = "LINKID_NOT_FOUND" => store' = store
                    /\ IsWithdrawn(link_id)
                         => /\ result'.op = "get_any"
                                 => result'.err = "ok" /\ result'.out = store[link_id]
                            /\ result'.op \in {"get", "resolve"}
                                 => result'.err = "LINKID_WITHDRAWN"
                            /\ (result'.op = "withdraw"
                                  /\ \E data \in WithdrawInputs :
                                       Withdraw(link_id, data, IssuerOf(store[link_id])))
                                 => result'.err = "ok"]_vars

\* get_any returned the record of a withdrawn id.
C22_Witness ==
  /\ result.op = "get_any" /\ result.err = "ok"
  /\ \E link_id \in LinkIds :
       /\ result.id = link_id
       /\ IsWithdrawn(link_id)
       /\ result.out = store[link_id]

\* ------------------------------------------------------------------ C29

\* C29: every stored record has a targetUri, and it is an absolute URI.
C29_TargetAlwaysAbsolute ==
  \A link_id \in DOMAIN store : store[link_id].target_uri \in AbsoluteUris

\* ------------------------------------------------------------------ C30

\* The update names the field: one of the keys that stand for it is present.
C30_Names(updates, keys) == DOMAIN updates.f \cap keys /= {}

\* What an update with the given dict keeps when it turns the record old
\* into the record new.
C30_Kept(old, new, updates) ==
  /\ new.id = old.id /\ new.created = old.created
  /\ new.withdrawn = old.withdrawn
  /\ ~C30_Names(updates, {"target_uri", "targetUri"}) => new.target_uri = old.target_uri
  /\ ~C30_Names(updates, {"media_type", "mediaType"}) => new.media_type = old.media_type
  /\ ~C30_Names(updates, {"language"}) => new.language = old.language
  /\ \A k \in DOMAIN old.metadata :
       (updates.md.kind /= "dict" \/ k \notin DOMAIN updates.md.d)
         => k \in DOMAIN new.metadata /\ new.metadata[k] = old.metadata[k]
  /\ updates.md.kind /= "dict" => new.metadata = old.metadata
  /\ ( /\ ~C30_Names(updates, {"target_uri", "targetUri", "media_type", "mediaType",
                                "language"})
       /\ updates.md.kind = "absent" )
       => new = old

\* C30: the record a successful update stores is the one its body computes
\* from the stored record and the update dict, and for every stored record
\* and every update dict that record keeps id, created and the tombstone;
\* keeps target, media type and language unless the update names them (in
\* either spelling of the key); keeps the value of every stored metadata
\* key that the update's metadata dict does not hold; and is the stored
\* record itself when the update names no recognized field.
C30_OnlyRecognizedFields ==
  /\ [](\A link_id \in DOMAIN store, updates \in UpdateInputs :
          C30_Kept(store[link_id], UpdatedRecord(store[link_id], updates, now), updates))
  /\ [][(result'.op = "update" /\ result'.err = "ok")
          => \A link_id \in LinkIds :
               result'.id = link_id
                 => \E updates \in UpdateInputs :
                      store'[link_id] = UpdatedRecord(store[link_id], updates, now)]_vars

\* A metadata update added its key next to the issuer entry the record had.
C30_Witness ==
  /\ result.op = "update" /\ result.err = "ok"
  /\ \E link_id \in LinkIds :
       /\ result.id = link_id
       /\ Known(link_id)
       /\ store[link_id].version = 2
       /\ DOMAIN store[link_id].metadata = {"issuer", "k"}
       /\ store[link_id].metadata["issuer"] = "demo-user"
       /\ store[link_id].target_uri = TargetA

\* ------------------------------------------------------------------ C23

\* C23: when the transport answers a resolve, a 3xx response with a
\* Location header gives a Redirect to that Location, a 200 response gives
\* a Metadata result holding the parsed body, and every other response
\* gives one of the client's exception classes and no result.
C23_ClassifiedByStatus ==
  [][(call.pc = "sending" /\ call.op = "resolve" /\ call'.response /= NoResponse)
       => LET response == call'.response
          IN IF response.status \in 300..399 /\ Truthy(response.location)
               THEN /\ call'.err = "ok"
                    /\ call'.out = RedirectResolution(call.link_id, response.location)
             ELSE IF response.status = 200
               THEN /\ call'.err = "ok"
                    /\ call'.out = MetadataResolution(call.link_id, response.body)
             ELSE /\ call'.err \in TypedErrors
                  /\ call'.out = NoResult]_vars

\* ------------------------------------------------------------------ C24

\* The thread takes a step of the method it is in.
ThreadMoves(t) == threads'[t] /= threads[t]

\* The entry a cache holds for a key.
C24_Stored(c, key) == c[CacheIndex(c, key)]

\* C24: in the client's cache and in the server's, set at time t stores
\* the value with expiresAt = t + ttl; a get that finds an entry returns a
\* miss and removes the entry when now >= expiresAt, and returns the stored
\* value when now < expiresAt.
C24_ExpiryAtBoundary ==
  [][/\ \A t \in Threads :
          /\ (threads[t].pc = "set_assign" /\ ThreadMoves(t))
               => /\ CacheIndex(cache', threads[t].key) /= 0
                  /\ C24_Stored(cache', threads[t].key).value = threads[t].value
                  /\ C24_Stored(cache', threads[t].key).expires_at
                       = now + threads[t].ttl * TicksPerSecond
          /\ (threads[t].pc = "get_expired" /\ ThreadMoves(t))
               => IF now >= threads[t].entry.expires_at
                    THEN threads'[t].pc = "get_pop"
                    ELSE /\ threads'[t].pc = "idle"
                         /\ result'.op = "TTLCache.get"
                         /\ result'.out = threads[t].entry.value
                         /\ cache' = cache
          /\ (threads[t].pc = "get_pop" /\ ThreadMoves(t))
               => /\ CacheIndex(cache', threads[t].key) = 0
                  /\ result'.op = "TTLCache.get" /\ result'.out = Miss
     /\ \A key \in ServerCacheKeys :
          /\ \A value \in CacheValues, ttl \in CacheTtls :
               ServerCacheSet(key, value, ttl)
                 => /\ CacheIndex(server_cache', key) /= 0
                    /\ C24_Stored(server_cache', key).value = value
                    /\ C24_Stored(server_cache', key).expires_at = now + ttl * TicksPerSecond
          /\ (ServerCacheGet(key) /\ CacheIndex(server_cache, key) /= 0)
               => IF now >= C24_Stored(server_cache, key).expires_at
                    THEN result'.out = Miss /\ CacheIndex(server_cache', key) = 0
                    ELSE /\ result'.out = C24_Stored(server_cache, key).value
                         /\ server_cache' = server_cache]_vars

\* ------------------------------------------------------------------ C25

\* C25: the client's cache never holds more than max_size entries.
C25_CacheBounded == Len(cache) <= max_size

\* ------------------------------------------------------------------ C26

\* C26: a set that finds the cache at capacity removes exactly one of the
\* entries and then stores its entry next to all the others that are left;
\* a set that finds it below capacity stores its entry and removes none.
C26_EvictsOneAtCapacity ==
  [][\A t \in Threads :
       /\ (threads[t].pc = "idle" /\ threads'[t].pc \in {"set_iter", "set_assign"})
            => /\ cache' = cache
               /\ threads'[t].pc = "set_iter" <=> Len(cache) >= max_size
       /\ (threads[t].pc = "set_iter" /\ ThreadMoves(t))
            => threads'[t].pc = "set_pop" /\ cache' = cache
       /\ (threads[t].pc = "set_pop" /\ ThreadMoves(t))
            => /\ threads'[t].pc = "set_assign"
               /\ \E i \in 1..Len(cache) : cache' = RemoveAt(cache, i)
       /\ (threads[t].pc = "set_assign" /\ ThreadMoves(t))
            => /\ threads'[t].pc = "idle"
               /\ result'.op = "TTLCache.set" /\ result'.err = "ok"
               /\ CacheIndex(cache', threads[t].key) /= 0
               /\ cache'[CacheIndex(cache', threads[t].key)].value = threads[t].value
               /\ \A i \in 1..Len(cache) :
                    cache[i].key /= threads[t].key
                      => \E j \in 1..Len(cache') : cache'[j] = cache[i]]_vars

\* A set of a new key found the cache full, removed the entry it held and
\* is about to store its own.
C26_Witness ==
  \E t \in Threads :
    /\ threads[t].pc = "set_assign"
    /\ threads[t].key = "K2" /\ threads[t].first = "K1"
    /\ max_size = 1
    /\ cache = EmptyCache

\* C27: a successful resolve of a caching client stores its result under the
\* call's key with an expiry of the clock plus the max-age of the response's
\* Cache-Control header when the header has a max-age=<digits> directive, and
\* plus the configured default TTL otherwise; a redirect this resolver
\* served is stored for 300 seconds and a metadata response for 120.
C27_MaxAge(h) ==
  IF h.given /\ \E i \in 1..(Len(h.s) - 1) : h.s[i] = "max-age=" /\ h.s[i + 1] \in {"0", "120", "300"}
    THEN LET i == CHOOSE i \in 1..(Len(h.s) - 1) :
                    h.s[i] = "max-age=" /\ h.s[i + 1] \in {"0", "120", "300"}
         IN CASE h.s[i + 1] = "0" -> 0 [] h.s[i + 1] = "120" -> 120 [] OTHER -> 300
    ELSE config.cache_ttl

C27_StoredFor(c, key, seconds) ==
  /\ CacheIndex(c, key) /= 0
  /\ c[CacheIndex(c, key)].expires_at = now + seconds * TicksPerSecond

C28_ErrorsKeepStructure ==
  [][(call.pc = "sending" /\ call.op = "resolve" /\ call'.pc = "done"
        /\ call'.response = ResolverResponse(call))
       => /\ ResolverErr(PathLinkId(call.link_id)) = "LINKID_NOT_FOUND"
               => /\ call'.err = "LinkIDNotFoundError"
                  /\ call'.err_link_id = call.link_id
          /\ ResolverErr(PathLinkId(call.link_id)) = "LINKID_WITHDRAWN"
               => /\ call'.err = "LinkIDWithdrawnError"
                  /\ call'.err_link_id = call.link_id
                  /\ call'.tombstone = TombstoneDict(store[PathLinkId(call.link_id)].withdrawn)]_vars

\* C31: the issuer in a stored record's metadata is the same after every
\* step: no update and no withdrawal changes or clears it.
C31_IssuerNeverChanges ==
  [][\A link_id \in DOMAIN store :
       /\ link_id \in DOMAIN store'
       /\ IssuerOf(store'[link_id]) = IssuerOf(store[link_id])]_vars

\* C32: an update or withdraw request of an authenticated identity without
\* the write scope leaves every record of the registry as it was.
C32_ReadOnlyCannotMutate ==
  [][\A token \in Tokens :
       (/\ result'.op \in {"PUT /resolve", "DELETE /resolve"}
        /\ result'.arg = token
        /\ GetCurrentUser(token).present
        /\ ~HasScope(GetCurrentUser(token), "write"))
         => store' = store]_vars

\* The entries of a cache.
C35_Entries(c) == { c[i] : i \in 1..Len(c) }

\* C35: an entry is added or replaced only by the step in which a resolve
\* returns, and entries are cleared only by the step in which an update or a
\* withdraw returns; a call that raises leaves every entry in place, apart
\* from the expired entry of its own key that resolve's lookup drops.
C35_FailuresLeaveCache ==
  [][/\ (C35_Entries(cache') \ C35_Entries(cache) /= {})
          => (CallReturns /\ call'.op = "resolve")
     /\ \A e \in C35_Entries(cache) \ C35_Entries(cache') :
          \/ CallReturns /\ call'.op \in {"update", "withdraw"}
          \/ CallReturns /\ call'.op = "resolve" /\ e.key = call'.key
          \/ CallStarts /\ call'.op = "resolve" /\ e.key = call'.key /\ e.expires_at < now
     /\ (call.pc = "sending" /\ call'.pc = "done" /\ call'.err /= "ok") => cache' = cache]_vars

\* An update raised for an HTTP error on a caching client and the cache
\* still holds an entry.
C35_Witness ==
  /\ call.op = "update" /\ call.pc = "done" /\ call.err = "LinkIDNotFoundError"
  /\ config.caching
  /\ cache /= EmptyCache

\* C36: the etag of a record's metadata resolution identifies its content.
\* In every step a record's version does not decrease, a record whose
\* version stays has the same metadata resolution (data and etag), and a
\* record whose etag stays has the same data; so two metadata resolutions
\* of one id with equal etags, however many creates, updates and
\* withdrawals lie between them, return equal target, mediaType, language,
\* metadata and version.
C36_EtagIdentifiesContent ==
  [][\A link_id \in DOMAIN store :
       /\ link_id \in DOMAIN store'
       /\ store'[link_id].version >= store[link_id].version
       /\ store'[link_id].version = store[link_id].version
            => MetadataResult(store'[link_id]) = MetadataResult(store[link_id])
       /\ MetadataResult(store'[link_id]).etag = MetadataResult(store[link_id]).etag
            => MetadataResult(store'[link_id]).data = MetadataResult(store[link_id]).data]_vars

\* A metadata resolution returned the etag of a record that was updated
\* twice, the second time at a later second than the first.
C36_Witness ==
  /\ result.op = "resolver.resolve" /\ result.err = "ok"
  /\ result.out.type = "metadata"
  /\ result.out.data.version = 3
  /\ result.out.etag = Etag(store[result.id])
  /\ store[result.id].updated > store[result.id].created

\* C37: while a set of a key the cache already holds runs, every entry of
\* another key stays in the cache, also when the cache is at capacity.
C37_ReplaceKeepsOtherKeys ==
  [][\A t \in Threads :
       (/\ threads[t].pc \in {"set_iter", "set_pop", "set_assign"}
        /\ ThreadMoves(t)
        /\ (CacheIndex(cache, threads[t].key) /= 0 \/ threads[t].first = threads[t].key))
         => \A i \in 1..Len(cache) :
              cache[i].key /= threads[t].key
                => \E j \in 1..Len(cache') : cache'[j] = cache[i]]_vars

\* C38: the pop of an expired entry at the end of a get removes no entry
\* that is unexpired at that moment: an entry of the key that another
\* caller's set stored while the get was in progress is still there when the
\* get has returned.
C38_LazyExpiryKeepsFresh ==
  [][\A t \in Threads :
       (/\ threads[t].pc = "get_pop" /\ ThreadMoves(t)
        /\ CacheIndex(cache, threads[t].key) /= 0
        /\ now < cache[CacheIndex(cache, threads[t].key)].expires_at)
         => /\ CacheIndex(cache', threads[t].key) /= 0
            /\ cache'[CacheIndex(cache', threads[t].key)]
                 = cache[CacheIndex(cache, threads[t].key)]]_vars

\* C33: while a thread's update or withdraw of an identifier stands as
\* returned, the shared cache holds no entry of that identifier that was
\* fetched before the server applied the mutation: none at all after a
\* withdraw, and after an update none with a version below the one the
\* update produced.
C33_NoStaleEntryAfterMutation ==
  \A t \in Callers :
    (callers[t].op \in {"update", "withdraw"} /\ callers[t].pc = "done"
       /\ callers[t].err = "ok")
      => \A i \in 1..Len(cache) :
           cache[i].value.link_id = callers[t].link_id
             => /\ callers[t].op = "update"
                /\ cache[i].value.data.version >= callers[t].applied

\* C34: the requests of one register call make the server create at most
\* one record.
C34_RegisterCreatesAtMostOne ==
  \A t \in Callers : callers[t].op = "register" => callers[t].created <= 1

====
